---- MODULE Spec2Model ----
(***************************************************************************)
(* A model of scripts/check_rosdep.py: the line-oriented convention        *)
(* checker (no_trailing_spaces, generic_parser and its three callbacks,    *)
(* and main with the whitespace audit); and of the scripts around it:      *)
(* yaml2rosinstall.py, sort_yaml.py, check_rosdistro_repos.py,             *)
(* add_devel_repo.py and test/hook_permissions.py.                         *)
(*                                                                         *)
(* A text line is a sequence of one-character strings; a buffer is the     *)
(* sequence of lines buf.split('\n') yields.  Line numbers i are 0-based   *)
(* as in enumerate(); reports carry the number the code prints.            *)
(***************************************************************************)
EXTENDS Integers, Sequences, FiniteSets, TLC

\* ------------------------------------------------------------------ bounds
MaxLines == 2       \* lines of a buffer given to main and to the four checks
MaxCol == 4         \* leading spaces of a line
MaxCbLines == 3     \* lines of a buffer given to generic_parser directly
MaxOrderLines == 3  \* lines of a buffer given to check_order directly
MaxRepos == 3       \* repositories of a registry given to yaml2rosinstall
MaxList == 3        \* elements of a list given to sort_yaml_data
MaxSorts == 2       \* calls of sort_yaml_data on one structure
MaxDistRepos == 2   \* repositories of a distribution file
MaxWalkList == 2   \* elements of a sequence of a nested document
MaxCalls == 3      \* runs of add_release_repo.py on one file
MaxHooks == 2       \* hooks of a GitHub repository

\* --------------------------------------------------------------- constants
indent_atom == <<" ", " ">>
ilen == Len(indent_atom)
excepts == { <<"u", "r", "i">>, <<"m", "d", "5", "s", "u", "m">> }
null_marker == <<"n", "u", "l", "l">>
whitespace_whitelist ==
    { <<"e", "l", " ", "c", "a", "p", "i", "t", "a", "n">>,
      <<"m", "o", "u", "n", "t", "a", "i", "n", " ", "l", "i", "o", "n">> }

\* ------------------------------------------------- character classes of re
\* \s of the re module (the characters a line can hold after split('\n'))
IsSpace(c) == c \in {" ", "\t", "\r", "\f"}
\* \w of the re module, over the characters the buffers are made of
IsWord(c) == c \in {"a", "b", "c", "d", "e", "i", "l", "m", "n", "o", "p", "r",
                    "s", "t", "u", "x", "y", "1", "2", "5", "_"}

\* code point of a character (ordering of str comparison)
Ord(c) ==
    CASE c = " " -> 32  [] c = "#" -> 35  [] c = "'" -> 39
      [] c = "1" -> 49  [] c = "2" -> 50  [] c = "5" -> 53
      [] c = ":" -> 58  [] c = "?" -> 63  [] c = "[" -> 91  [] c = "]" -> 93
      [] c = "_" -> 95
      [] c = "a" -> 97  [] c = "b" -> 98  [] c = "c" -> 99  [] c = "d" -> 100
      [] c = "e" -> 101 [] c = "i" -> 105 [] c = "l" -> 108 [] c = "m" -> 109
      [] c = "n" -> 110 [] c = "o" -> 111 [] c = "p" -> 112 [] c = "r" -> 114
      [] c = "s" -> 115 [] c = "t" -> 116 [] c = "u" -> 117 [] c = "x" -> 120
      [] c = "y" -> 121 [] c = "{" -> 123 [] c = "|" -> 124 [] c = "}" -> 125
      [] OTHER -> 0

\* ---------------------------------------------------------- regex matches
\* a variant that takes a space anywhere in the line for a trailing one
trailing_space_anywhere(l) == \E k \in 1..Len(l) : l[k] = " "

\* re.search(r' $', l) is not None
trailing_space_re(l) == Len(l) > 0 /\ l[Len(l)] = " "

\* re.search(r'^\s*#', l) is not None
comment_re(l) ==
    \E k \in 1..Len(l) : l[k] = "#" /\ \A j \in 1..(k - 1) : IsSpace(l[j])

\* positions (0-based) where r'(?!  )[^\s]' matches
indent_end_matches(l) ==
    { p \in 0..(Len(l) - 1) :
        /\ ~(p + 2 <= Len(l) /\ SubSeq(l, p + 1, p + 2) = indent_atom)
        /\ ~IsSpace(l[p + 1]) }

\* re.search(r'(?!  )[^\s]', l): the start of the leftmost match, -1 for None
indent_end_re(l) ==
    IF indent_end_matches(l) = {} THEN -1
    ELSE CHOOSE p \in indent_end_matches(l) :
            \A q \in indent_end_matches(l) : p <= q

\* re.search(r'^\s*\?', l) is not None
question_start_re(l) ==
    \E k \in 1..Len(l) : l[k] = "?" /\ \A j \in 1..(k - 1) : IsSpace(l[j])

\* a variant that knows '|' at the end of the line only
block_open_bar_only(l) == Len(l) > 0 /\ l[Len(l)] = "|"

\* re.search(r'\|$|\?$|^\s*\?', l) is not None
block_open_re(l) ==
    \/ Len(l) > 0 /\ l[Len(l)] \in {"|", "?"}
    \/ question_start_re(l)

\* number of characters r'^(?:  )*' takes: the whole indent atoms at the start
RECURSIVE atoms_prefix(_)
atoms_prefix(l) ==
    IF Len(l) >= 2 /\ SubSeq(l, 1, 2) = indent_atom
    THEN 2 + atoms_prefix(SubSeq(l, 3, Len(l)))
    ELSE 0

\* 1-based position of the first ':' of l, 0 when there is none
first_colon(l) ==
    IF \E k \in 1..Len(l) : l[k] = ":"
    THEN CHOOSE k \in 1..Len(l) : l[k] = ":" /\ \A j \in 1..(k - 1) : l[j] # ":"
    ELSE 0

\* group 1 of r'^(?:  )*([^:]*):' : the text between the indent atoms and the
\* first colon (the atoms are taken greedily and lie before any colon)
key_group(l) == SubSeq(l, atoms_prefix(l) + 1, first_colon(l) - 1)

\* a variant that matches a line without a colon too
order_re_lenient(l) == [matched |-> TRUE, key |-> l]

\* re.match(r'^(?:  )*([^:]*):.*$', l): matched, and group 1
order_re(l) ==
    IF first_colon(l) = 0 THEN [matched |-> FALSE, key |-> <<>>]
    ELSE [matched |-> TRUE, key |-> key_group(l)]

\* 1-based position of the first non-\s character after position k, 0 if none
first_nonspace_after(l, k) ==
    IF \E p \in (k + 1)..Len(l) : ~IsSpace(l[p])
    THEN CHOOSE p \in (k + 1)..Len(l) :
            ~IsSpace(l[p]) /\ \A j \in (k + 1)..(p - 1) : IsSpace(l[j])
    ELSE 0

\* re.match(r'^(?:  )*([^:]*):\s*(\w.*)$', l): matched, group 1 and group 2
brackets_re(l) ==
    LET c == first_colon(l)
        v == IF c = 0 THEN 0 ELSE first_nonspace_after(l, c)
    IN  IF c # 0 /\ v # 0 /\ IsWord(l[v])
        THEN [matched |-> TRUE, key |-> key_group(l), value |-> SubSeq(l, v, Len(l))]
        ELSE [matched |-> FALSE, key |-> <<>>, value |-> <<>>]

\* ------------------------------------------------- decoded scalars (keys)
RECURSIVE lstrip(_)
lstrip(s) == IF Len(s) > 0 /\ IsSpace(s[1]) THEN lstrip(Tail(s)) ELSE s

RECURSIVE rstrip(_)
rstrip(s) ==
    IF Len(s) > 0 /\ IsSpace(s[Len(s)]) THEN rstrip(SubSeq(s, 1, Len(s) - 1)) ELSE s

\* a decimal digit, and the number a sequence of digits denotes
IsDigit(c) == c \in {"1", "2", "5"}
RECURSIVE int_value(_)
int_value(v) ==
    IF v = <<>> THEN 0
    ELSE 10 * int_value(SubSeq(v, 1, Len(v) - 1)) + (Ord(v[Len(v)]) - 48)

\* yaml.safe_load(text) for the text of a key: a plain scalar loses the
\* spaces around it; the empty document is None; a plain scalar of digits is
\* an int; a plain scalar of word characters that are not all digits is a str
yaml_safe_load_key(text) ==
    LET t == rstrip(lstrip(text))
    IN  IF t = <<>> THEN [t |-> "none", v |-> <<>>]
        ELSE IF \A k \in 1..Len(t) : IsDigit(t[k]) THEN [t |-> "int", v |-> t]
        ELSE [t |-> "str", v |-> t]

\* s < t for two str values: lexicographic by code point
RECURSIVE str_less(_, _)
str_less(s, t) ==
    IF t = <<>> THEN FALSE
    ELSE IF s = <<>> THEN TRUE
    ELSE IF Ord(s[1]) # Ord(t[1]) THEN Ord(s[1]) < Ord(t[1])
    ELSE str_less(Tail(s), Tail(t))

\* item < prev: two str by code point, two int by value; "TypeError" when
\* the operands are of two types, or None
py_less(item, prev) ==
    IF item.t = "str" /\ prev.t = "str"
    THEN (IF str_less(item.v, prev.v) THEN "True" ELSE "False")
    ELSE IF item.t = "int" /\ prev.t = "int"
    THEN (IF int_value(item.v) < int_value(prev.v) THEN "True" ELSE "False")
    ELSE "TypeError"

empty_str == [t |-> "str", v |-> <<>>]

\* ------------------------------------------------------------- reports
\* one printed line: print_err(...) of a check, or the print of check_order;
\* line is the line number the message holds, text the text of a line or of a
\* value when the message holds it (<<>> when it does not)
Report(msg, line, text) == [msg |-> msg, line |-> line, text |-> text]

\* ------------------------------------------------- the per-line callbacks
\* What a callback hands back: its return value, the report it printed (if
\* any), the exception it raised ("" for none) and its function attributes.
CbResult(ret, errs, exc, flvl, st) ==
    [ret |-> ret, errs |-> errs, exc |-> exc, fun_lvl |-> flvl, namestack |-> st]

\* a variant that records the level of a line only when the line passes
correct_indent_fun_keep(n, l, o, flvl, st) ==
    IF o.s % ilen > 0
    THEN CbResult(FALSE, <<Report("invalid indentation level", n + 1, <<>>)>>,
                  "", flvl, st)
    ELSE IF o.lvl > flvl + 1
    THEN CbResult(FALSE, <<Report("too much indentation", n + 1, <<>>)>>,
                  "", flvl, st)
    ELSE CbResult(TRUE, <<>>, "", o.lvl, st)

\* correct_indent.fun(i, l, o)
correct_indent_fun(n, l, o, flvl, st) ==
    LET s == o.s
        olvl == flvl
    IN  IF s % ilen > 0
        THEN CbResult(FALSE, <<Report("invalid indentation level", n + 1, <<>>)>>,
                      "", o.lvl, st)
        ELSE IF o.lvl > olvl + 1
        THEN CbResult(FALSE, <<Report("too much indentation", n + 1, <<>>)>>,
                      "", o.lvl, st)
        ELSE CbResult(TRUE, <<>>, "", o.lvl, st)

\* a variant without the 'null' exception
check_brackets_fun_no_null(n, l, o, flvl, st) ==
    LET m == brackets_re(l)
    IN  IF m.matched /\ m.key \notin excepts
        THEN CbResult(FALSE, <<Report("list not in square brackets", n + 1, <<>>)>>,
                      "", flvl, st)
        ELSE CbResult(TRUE, <<>>, "", flvl, st)

\* check_brackets.fun(i, l, o)
check_brackets_fun(n, l, o, flvl, st) ==
    LET m == brackets_re(l)
    IN  IF m.matched /\ m.key \notin excepts
        THEN IF m.value = null_marker
             THEN CbResult(TRUE, <<>>, "", flvl, st)
             ELSE CbResult(FALSE, <<Report("list not in square brackets", n + 1, <<>>)>>,
                           "", flvl, st)
        ELSE CbResult(TRUE, <<>>, "", flvl, st)

\* the namestack after 'while len(st) > lvl + 1: st.pop()' and
\* 'if len(st) < lvl + 1: st.append('')'
namestack_update(st, lvl) ==
    LET popped == IF Len(st) > lvl + 1 THEN SubSeq(st, 1, lvl + 1) ELSE st
    IN  IF Len(popped) < lvl + 1 THEN Append(popped, empty_str) ELSE popped

\* a variant in which a '?' line puts the sentinel in the place of the key
\* recorded at its level
check_order_fun_marker_resets(n, l, o, flvl, st) ==
    LET lvl == o.lvl
        compare(less, st2) ==
            IF less = "TypeError"
            THEN CbResult(FALSE, <<>>, "TypeError", flvl, st2)
            ELSE IF less = "True"
            THEN CbResult(FALSE,
                          <<Report("list out of alphabetical order", n + 1, <<>>)>>,
                          "", flvl, st2)
            ELSE CbResult(TRUE, <<>>, "", flvl, st2)
        store(item, st1) ==
            compare(py_less(item, st1[lvl + 1]), [st1 EXCEPT ![lvl + 1] = item])
        body(st1, m) ==
            IF question_start_re(l)
            THEN CbResult(TRUE, <<>>, "", flvl,
                          [k \in 1..Len(st1) |->
                              IF k = lvl + 1 THEN empty_str ELSE st1[k]])
            ELSE IF Len(st1) < lvl + 1
            THEN CbResult(FALSE, <<>>, "IndexError", flvl, st1)
            ELSE IF ~m.matched
            THEN CbResult(FALSE, <<Report("woops", n, <<>>)>>, "AttributeError",
                          flvl, st1)
            ELSE store(yaml_safe_load_key(m.key), st1)
    IN  body(namestack_update(st, lvl), order_re(l))

\* check_order.fun(i, l, o)
check_order_fun(n, l, o, flvl, st) ==
    LET lvl == o.lvl
        \* item < prev, with the stack st2 that holds item
        compare(less, st2) ==
            IF less = "TypeError"
            THEN CbResult(FALSE, <<>>, "TypeError", flvl, st2)
            ELSE IF less = "True"
            THEN CbResult(FALSE,
                          <<Report("list out of alphabetical order", n + 1, <<>>)>>,
                          "", flvl, st2)
            ELSE CbResult(TRUE, <<>>, "", flvl, st2)
        \* the name of the key, put on the stack st1 in place of prev
        store(item, st1) ==
            compare(py_less(item, st1[lvl + 1]), [st1 EXCEPT ![lvl + 1] = item])
        \* the body of fun on the updated stack st1, with the match m
        body(st1, m) ==
            IF question_start_re(l) THEN CbResult(TRUE, <<>>, "", flvl, st1)
            ELSE IF Len(st1) < lvl + 1
            THEN \* prev = st[lvl] is out of range
                 CbResult(FALSE, <<>>, "IndexError", flvl, st1)
            ELSE IF ~m.matched
            THEN \* m is None: m.groups() raises inside the try
                 CbResult(FALSE, <<Report("woops", n, <<>>)>>, "AttributeError",
                          flvl, st1)
            ELSE store(yaml_safe_load_key(m.key), st1)
    IN  body(namestack_update(st, lvl), order_re(l))

\* a callback of the caller's: it returns the value ret and keeps no state
opaque_fun(n, l, o, flvl, st, ret) == CbResult(ret, <<>>, "", flvl, st)

\* cb(i, l, opts) for the callback the running function passes
cb_call(name, n, l, o, flvl, st, ret) ==
    CASE name = "correct_indent" -> correct_indent_fun(n, l, o, flvl, st)
      [] name = "check_brackets" -> check_brackets_fun(n, l, o, flvl, st)
      [] name = "check_order" -> check_order_fun(n, l, o, flvl, st)
      [] OTHER -> opaque_fun(n, l, o, flvl, st, ret)

\* ------------------------------------------------------- generic_parser
\* The locals of a running generic_parser, with the function attributes of
\* its callback and what the run has printed and called so far.
ParserState(c, sb, sl, lv, flvl, st, es, cs, ex) ==
    [clean |-> c, stringblock |-> sb, strlvl |-> sl, lvl |-> lv, fun_lvl |-> flvl,
     namestack |-> st, errs |-> es, calls |-> cs, exc |-> ex]

ParserStart == ParserState(TRUE, FALSE, 0, 0, 0, <<empty_str>>, <<>>, <<>>, "")

\* 'if l == '': continue' and 'if re.search(r'^\s*#', l) is not None: continue'
parser_skips(l) == l = <<>> \/ comment_re(l)

\* one iteration of generic_parser's loop, for line l with index n; ret is the
\* value a callback of the caller's returns when it is called
parser_iter(name, g, n, l, ret) ==
    LET \* after cb(i, l, opts) has handed back r
        after(opts, r, opens) ==
            ParserState(IF r.exc = "" /\ ~r.ret THEN FALSE ELSE g.clean,
                        r.exc = "" /\ opens,
                        IF r.exc = "" /\ opens THEN opts.lvl ELSE g.strlvl,
                        opts.lvl, r.fun_lvl, r.namestack, g.errs \o r.errs,
                        Append(g.calls, [line |-> n, lvl |-> opts.lvl, s |-> opts.s,
                                         ret |-> r.ret, exc |-> r.exc]),
                        r.exc)
        \* a line whose indentation ends at s
        at(s) ==
            IF s = -1
            THEN [g EXCEPT !.errs = Append(@, Report("line", n, l)),
                           !.exc = "AttributeError"]
            ELSE IF g.stringblock /\ s \div ilen > g.strlvl THEN g
            ELSE after([lvl |-> s \div ilen, s |-> s],
                       cb_call(name, n, l, [lvl |-> s \div ilen, s |-> s],
                               g.fun_lvl, g.namestack, ret),
                       block_open_re(l))
    IN  IF parser_skips(l) THEN g ELSE at(indent_end_re(l))

\* generic_parser(buf, cb) for one of the three callbacks of the module, from
\* line n on: the state it ends in (exc # "" when an exception escaped)
RECURSIVE parser_run(_, _, _, _)
parser_run(name, b, n, g) ==
    IF n >= Len(b) \/ g.exc # "" THEN g
    ELSE parser_run(name, b, n + 1, parser_iter(name, g, n, b[n + 1], TRUE))

generic_parser(name, b) == parser_run(name, b, 0, ParserStart)

\* no_trailing_spaces(buf): the 1-based numbers it reports, in order
RECURSIVE trailing_reports(_, _)
trailing_reports(b, n) ==
    IF n >= Len(b) THEN <<>>
    ELSE (IF trailing_space_re(b[n + 1])
          THEN <<Report("trailing space", n + 1, <<>>)>> ELSE <<>>)
         \o trailing_reports(b, n + 1)

no_trailing_spaces(b) == trailing_reports(b, 0) = <<>>

\* ------------------------------------------------- the decoded document
\* A node of what yaml.safe_load returns: a dict (items: <<key, value>>
\* pairs in iteration order), a list, a str or None; "error" stands for the
\* load raising.
Node(t, v, items) == [t |-> t, v |-> v, items |-> items]
NoneNode == Node("none", <<>>, <<>>)
LoadError == Node("error", <<>>, <<>>)
Str(v) == Node("str", v, <<>>)
List(items) == Node("list", <<>>, items)
Dict(items) == Node("dict", <<>>, items)
EmptyDict == Dict(<<>>)

\* re.search(r'\s', node) is not None
has_whitespace_re(v) == \E k \in 1..Len(v) : IsSpace(v[k])

\* main.walk(node): the reports it prints, in order (each one also calls
\* my_assert(False))
RECURSIVE walk(_)
RECURSIVE walk_dict_items(_)
RECURSIVE walk_list_items(_)
\* a variant that visits the values of a mapping and not its keys
walk_dict_values(items) ==
    IF items = <<>> THEN <<>>
    ELSE walk(items[1][2]) \o walk_dict_items(Tail(items))
walk_dict_items(items) ==
    IF items = <<>> THEN <<>>
    ELSE walk(items[1][1]) \o walk(items[1][2]) \o walk_dict_items(Tail(items))
walk_list_items(items) ==
    IF items = <<>> THEN <<>>
    ELSE walk(items[1]) \o walk_list_items(Tail(items))
walk(node) ==
    (IF node.t = "dict" THEN walk_dict_items(node.items) ELSE <<>>)
    \o (IF node.t = "list" THEN walk_list_items(node.items) ELSE <<>>)
    \o (IF node.t = "str" /\ has_whitespace_re(node.v)
           /\ node.v \notin whitespace_whitelist
        THEN <<Report("must not contain whitespaces", 0, node.v)>>
        ELSE <<>>)

\* ------------------------------------------------------------ the inputs
Spaces(n) == [k \in 1..n |-> " "]

\* what follows the indentation of a line
Bodies ==
    { <<>>,                                  \* empty, or spaces only
      <<"#">>,                               \* a comment
      <<"a", ":">>,
      <<"b", ":">>,
      <<"b", ":", " ", "x">>,                \* a bare value
      <<"b", ":", " ", "'", "x", "'">>,      \* a quoted value
      <<"u", "r", "i", ":", " ", "x">>,      \* a bare value of an exempt key
      <<"m", "d", "5", "s", "u", "m", ":", " ", "x">>,
      <<"a", ":", " ", "n", "u", "l", "l">>,
      <<"a", ":", " ", "n", "u", "l", "l", " ">>,
      <<"a", ":", " ", "[", "x", "]">>,
      <<"a", ":", " ", "[", "x", "]", " ">>, \* a trailing space
      <<"?", " ", "a">>,                     \* a mapping-key marker
      <<"a", ":", " ", "|">>,                \* opens a literal block
      <<"x">>,                               \* no colon
      <<"{", "}">>,
      <<"{", "}", " ">> }

Lines == { Spaces(n) \o b : n \in 0..MaxCol, b \in Bodies }

SeqsUpTo(S, n) == UNION { [1..k -> S] : k \in 1..n }

Buffers == SeqsUpTo(Lines, MaxLines)

\* the lines given to generic_parser with a callback of the caller's
CbBodies ==
    { <<>>, <<"#">>, <<"a", ":">>, <<"a", ":", " ", "|">>, <<"?", " ", "a">>,
      <<"a", "?">> }
CbLines == { Spaces(n) \o b : n \in 0..MaxCol, b \in CbBodies }
CbBuffers == SeqsUpTo(CbLines, MaxCbLines)

\* the lines given to check_order directly
OrderBodies ==
    { <<>>, <<"a", ":">>, <<"b", ":">>, <<"?", " ", "a">>,
      <<"5", ":">>, <<"1", "2", ":">> }       \* keys that decode to numbers
OrderLines == { Spaces(n) \o b : n \in 0..MaxCol, b \in OrderBodies }
OrderBuffers == SeqsUpTo(OrderLines, MaxOrderLines)

\* ------------------------------------------------- yaml.safe_load(buf)
\* The YAML library is outside the repository: what it returns for a buffer
\* is an answer of the environment.  These facts about it are kept: a buffer
\* of blank lines and comments loads as None; a buffer whose only content is
\* '{}' loads as the empty dict, and no other buffer of these lines does; a
\* buffer whose only content is one plain word loads as that str; a buffer in
\* which a key line with an inline value is followed by a deeper key line
\* does not load ("mapping values are not allowed here").  Every other
\* buffer is taken to load as some non-empty dict, with or without a str
\* that holds whitespace.
yaml_blank(l) == rstrip(l) = <<>> \/ comment_re(l)
yaml_content(buf) == SelectSeq(buf, LAMBDA l : ~yaml_blank(l))
yaml_text(l) == rstrip(lstrip(l))
yaml_indent(l) == Len(l) - Len(lstrip(l))
yaml_key_line(l) == first_colon(l) # 0 /\ yaml_text(l)[1] # "?"
yaml_inline_value(l) ==
    /\ yaml_key_line(l)
    /\ first_nonspace_after(l, first_colon(l)) # 0
    /\ l[first_nonspace_after(l, first_colon(l))] # "|"
yaml_malformed(c) ==
    \E n \in 1..(Len(c) - 1) :
        /\ yaml_inline_value(c[n])
        /\ yaml_key_line(c[n + 1])
        /\ yaml_indent(c[n + 1]) > yaml_indent(c[n])

LoadedDicts ==
    { Dict(<< <<Str(<<"a">>), List(<<Str(<<"x">>)>>)>> >>),
      Dict(<< <<Str(<<"a">>), List(<<Str(<<"x", " ", "y">>)>>)>> >>) }

yaml_safe_load(buf) ==
    LET c == yaml_content(buf)
    IN  IF c = <<>> THEN {NoneNode}
        ELSE IF Len(c) = 1 /\ yaml_text(c[1]) = <<"{", "}">> THEN {EmptyDict}
        ELSE IF Len(c) = 1 /\ \A k \in 1..Len(yaml_text(c[1])) : IsWord(yaml_text(c[1])[k])
        THEN {Str(yaml_text(c[1]))}
        ELSE IF yaml_malformed(c) THEN {LoadError}
        ELSE LoadedDicts

\* ------------------------------------------- dicts and lists of Python
\* 'k in d', d[k], d.keys() and d[k] = v on a dict node (k is a Str node)
dict_has(d, k) == \E n \in 1..Len(d.items) : d.items[n][1] = k
dict_get(d, k) == d.items[CHOOSE n \in 1..Len(d.items) : d.items[n][1] = k][2]
dict_keys(d) == [n \in 1..Len(d.items) |-> d.items[n][1]]
dict_set(d, k, v) ==
    IF dict_has(d, k)
    THEN Dict([n \in 1..Len(d.items) |->
                  IF d.items[n][1] = k THEN <<k, v>> ELSE d.items[n]])
    ELSE Dict(Append(d.items, <<k, v>>))

\* a < b for two str, or for two lists of str (lexicographic)
RECURSIVE seq_less(_, _)
seq_less(s, t) ==
    IF t = <<>> THEN FALSE
    ELSE IF s = <<>> THEN TRUE
    ELSE IF s[1] # t[1] THEN str_less(s[1].v, t[1].v)
    ELSE seq_less(Tail(s), Tail(t))
node_less(a, b) ==
    IF a.t = "str" THEN str_less(a.v, b.v) ELSE seq_less(a.items, b.items)

\* the elements of a list cannot all be compared: two of them differ in type
\* (list.sort() raises TypeError)
unorderable(items) ==
    \E m, n \in 1..Len(items) : items[m].t # items[n].t

\* list.sort() and sorted(): ascending, equal elements in their first order
RECURSIVE insort(_, _)
insort(s, x) ==
    IF s = <<>> THEN <<x>>
    ELSE IF node_less(x, s[1]) THEN <<x>> \o s
    ELSE <<s[1]>> \o insort(Tail(s), x)
RECURSIVE sorted(_)
sorted(s) ==
    IF s = <<>> THEN <<>> ELSE insort(sorted(SubSeq(s, 1, Len(s) - 1)), s[Len(s)])

\* a variant that moves the first element to the end
list_rotate(items) == IF items = <<>> THEN <<>> ELSE Tail(items) \o <<items[1]>>

\* list.sort() of the elements of a list
list_sort(items) == sorted(items)

\* str keys of the registries
key_repositories == Str(<<"r", "e", "p", "o", "s", "i", "t", "o", "r", "i", "e", "s">>)
key_url == Str(<<"u", "r", "l">>)
key_uri == Str(<<"u", "r", "i">>)
key_version == Str(<<"v", "e", "r", "s", "i", "o", "n">>)
key_type == Str(<<"t", "y", "p", "e">>)
key_local_name == Str(<<"l", "o", "c", "a", "l", "-", "n", "a", "m", "e">>)
git == Str(<<"g", "i", "t">>)
svn == Str(<<"s", "v", "n">>)

\* ------------------------------------------------- yaml2rosinstall.py
\* a variant that takes the names in the order of the dict
repository_names_unsorted(data) == dict_keys(dict_get(data, key_repositories))

\* sorted(data['repositories'].keys())
repository_names(data) == sorted(dict_keys(dict_get(data, key_repositories)))

\* the entry the loop body appends for name, lines 47-55
rosinstall_entry(data, name) ==
    LET entry_of(values) ==
            Dict(<< << (IF dict_has(values, key_type)
                        THEN dict_get(values, key_type) ELSE git),
                       Dict(<< <<key_local_name, name>>,
                               <<key_uri, dict_get(values, key_url)>> >>
                            \o (IF dict_has(values, key_version)
                                THEN << <<key_version, dict_get(values, key_version)>> >>
                                ELSE <<>>)) >> >>)
    IN  entry_of(dict_get(dict_get(data, key_repositories), name))

\* values['url'] raises KeyError
rosinstall_keyerror(data, name) ==
    ~dict_has(dict_get(dict_get(data, key_repositories), name), key_url)

\* ------------------------------------------------------- sort_yaml.py
\* sort_yaml_data(data): data after the call, and the exception that escaped.
\* A list is sorted in place; a dict has each of its values sorted in turn,
\* up to the first that raises; anything else is left alone.
RECURSIVE sort_yaml_data(_)
RECURSIVE sort_yaml_values(_, _)
sort_yaml_values(items, n) ==
    IF n > Len(items) THEN [exc |-> "", items |-> items]
    ELSE LET then(r) ==
                 IF r.exc # "" THEN [exc |-> r.exc, items |-> items]
                 ELSE sort_yaml_values([items EXCEPT ![n] = <<items[n][1], r.data>>],
                                       n + 1)
         IN  then(sort_yaml_data(items[n][2]))
sort_yaml_data(data) ==
    IF data.t = "list"
    THEN IF unorderable(data.items) THEN [exc |-> "TypeError", data |-> data]
         ELSE [exc |-> "", data |-> List(list_sort(data.items))]
    ELSE IF data.t = "dict"
    THEN LET wrap(r) == [exc |-> r.exc, data |-> Dict(r.items)]
         IN  wrap(sort_yaml_values(data.items, 1))
    ELSE [exc |-> "", data |-> data]

\* --------------------------------------------------------------- state
VARIABLES
    buf,             \* the file's text, split on '\n'
    loaded,          \* what yaml.safe_load(buf) answers (NoneNode: not asked)
    entry,           \* the function that was called
    pc,              \* the function that is running, "done" or "raised"
    i,               \* index of the next item of the running loop
    clean,           \* the local 'clean' of the running check
    stringblock,     \* generic_parser's string-block flag
    strlvl,          \* and the level it was set at
    lvl,             \* generic_parser's lvl
    fun_lvl,         \* correct_indent's fun.lvl
    namestack,       \* check_order's fun.namestack
    ydict,           \* main's ydict
    my_assert_clean, \* main's my_assert.clean
    errs,            \* the reports printed so far, in order
    calls,           \* the callback invocations of the running generic_parser
    rets,            \* the value each function that returned has returned
    exc,             \* the exception that escaped, "" for none
    args,            \* the arguments of the call (scripts other than check_rosdep)
    data,            \* the local 'data' of yaml2rosinstall, sort_yaml, add_devel_repo
    rosinstall_data, \* yaml2rosinstall's rosinstall_data
    applied,         \* data after each call of sort_yaml_data so far
    distribution_file, \* check_rosdistro_repos: the repositories, sorted by name
    test_repo,       \* hook_permissions: the repository get_repo returned
    hook_detected,   \* hook_permissions: check_repo_for_access's hook_detected
    errors,          \* hook_permissions: the list 'errors'
    written,         \* add_devel_repo: what was written to yaml_file
    tempdirs         \* check_rosdistro_repos: the directories of mkdtemp that exist

\* the state of check_rosdep alone, and of the other scripts alone
rosdep_vars == <<buf, loaded, clean, stringblock, strlvl, lvl, fun_lvl, namestack,
                 ydict, my_assert_clean, calls>>
script_vars == <<args, data, rosinstall_data, applied, distribution_file,
                 test_repo, hook_detected, errors, written, tempdirs>>

vars == <<buf, loaded, entry, pc, i, clean, stringblock, strlvl, lvl, fun_lvl,
          namestack, ydict, my_assert_clean, errs, calls, rets, exc, args, data,
          rosinstall_data, applied, distribution_file, test_repo, hook_detected,
          errors, written, tempdirs>>

Parsers == {"correct_indent", "check_brackets", "check_order", "generic_parser"}
Checks == {"no_trailing_spaces", "correct_indent", "check_brackets", "check_order"}

\* the state a call starts from: the locals of no_trailing_spaces and
\* generic_parser, fun.lvl = 0 and fun.namestack = ['']
NoScript ==
    /\ args = <<>>
    /\ data = NoneNode
    /\ rosinstall_data = <<>>
    /\ applied = <<>>
    /\ distribution_file = <<>>
    /\ test_repo = NoneNode
    /\ hook_detected = FALSE
    /\ errors = <<>>
    /\ written = NoneNode
    /\ tempdirs = {}

InitOf(bufs, entries) ==
    /\ NoScript
    /\ buf \in bufs
    /\ entry \in entries
    /\ loaded \in (IF entry = "main" THEN yaml_safe_load(buf) ELSE {NoneNode})
    /\ pc = entry
    /\ i = 0
    /\ clean = TRUE
    /\ stringblock = FALSE
    /\ strlvl = 0
    /\ lvl = 0
    /\ fun_lvl = 0
    /\ namestack = <<empty_str>>
    /\ ydict = NoneNode
    /\ my_assert_clean = TRUE
    /\ errs = <<>>
    /\ calls = <<>>
    /\ rets = <<>>
    /\ exc = ""

Init == InitOf(Buffers, {"main"} \cup Checks)

InitCb == InitOf(CbBuffers, {"generic_parser"})

InitOrder == InitOf(OrderBuffers, {"check_order"})

\* the check main runs after check f
after_check(f) ==
    CASE f = "no_trailing_spaces" -> "correct_indent"
      [] f = "correct_indent" -> "check_brackets"
      [] f = "check_brackets" -> "check_order"
      [] OTHER -> "walk"

\* a variant that keeps the last value asserted instead of accumulating
my_assert_last(val, c) == val

\* my_assert(val)
my_assert(val, c) == IF ~val THEN FALSE ELSE c

\* the next check starts: its locals and function attributes are fresh
StartCheck(f) ==
    /\ pc' = f
    /\ i' = 0
    /\ clean' = TRUE
    /\ stringblock' = FALSE
    /\ strlvl' = 0
    /\ lvl' = 0
    /\ fun_lvl' = 0
    /\ namestack' = <<empty_str>>
    /\ calls' = <<>>

\* a check returns val: to main, which asserts it and goes on, or to the caller
ReturnCheck(val) ==
    /\ rets' = (pc :> val) @@ rets
    /\ IF entry = "main"
       THEN /\ my_assert_clean' = my_assert(val, my_assert_clean)
            /\ IF after_check(pc) = "walk"
               THEN /\ pc' = "walk"
                    /\ UNCHANGED <<i, clean, stringblock, strlvl, lvl, fun_lvl,
                                   namestack, calls>>
               ELSE StartCheck(after_check(pc))
       ELSE /\ pc' = "done"
            /\ UNCHANGED <<my_assert_clean, i, clean, stringblock, strlvl, lvl,
                           fun_lvl, namestack, calls>>

\* main, lines 297-331: the first load and the choice to run the checks
MainLoad ==
    /\ pc = "main"
    /\ ydict' = (IF loaded = LoadError THEN NoneNode ELSE loaded)
    /\ IF ydict' # EmptyDict
       THEN StartCheck("no_trailing_spaces")
       ELSE /\ pc' = "walk"
            /\ UNCHANGED <<i, clean, stringblock, strlvl, lvl, fun_lvl,
                           namestack, calls>>
    /\ UNCHANGED <<buf, loaded, entry, my_assert_clean, errs, rets, exc>>
    /\ UNCHANGED script_vars

\* no_trailing_spaces: one iteration of the loop
TrailingLine ==
    /\ pc = "no_trailing_spaces"
    /\ i < Len(buf)
    /\ IF trailing_space_re(buf[i + 1])
       THEN /\ errs' = Append(errs, Report("trailing space", i + 1, <<>>))
            /\ clean' = FALSE
       ELSE UNCHANGED <<errs, clean>>
    /\ i' = i + 1
    /\ UNCHANGED <<buf, loaded, entry, pc, stringblock, strlvl, lvl, fun_lvl,
                   namestack, ydict, my_assert_clean, calls, rets, exc>>
    /\ UNCHANGED script_vars

\* no_trailing_spaces: return clean
TrailingReturn ==
    /\ pc = "no_trailing_spaces"
    /\ i = Len(buf)
    /\ ReturnCheck(clean)
    /\ UNCHANGED <<buf, loaded, entry, ydict, errs, exc>>
    /\ UNCHANGED script_vars

\* the locals of the running generic_parser, as parser_iter takes them
Locals ==
    ParserState(clean, stringblock, strlvl, lvl, fun_lvl, namestack, errs, calls, exc)

\* one iteration of generic_parser's loop on the next line
Iterate(ret) ==
    \E g \in {parser_iter(pc, Locals, i, buf[i + 1], ret)} :
        /\ clean' = g.clean
        /\ stringblock' = g.stringblock
        /\ strlvl' = g.strlvl
        /\ lvl' = g.lvl
        /\ fun_lvl' = g.fun_lvl
        /\ namestack' = g.namestack
        /\ errs' = g.errs
        /\ calls' = g.calls
        /\ exc' = g.exc
        /\ IF g.exc # ""
           THEN pc' = "raised" /\ i' = i
           ELSE pc' = pc /\ i' = i + 1
        /\ UNCHANGED <<buf, loaded, entry, ydict, my_assert_clean, rets>>
        /\ UNCHANGED script_vars

\* generic_parser: a blank line or a comment line, 'continue'
ParserSkip ==
    /\ pc \in Parsers
    /\ i < Len(buf)
    /\ parser_skips(buf[i + 1])
    /\ Iterate(TRUE)

\* generic_parser: the search for the end of the indentation finds nothing;
\* the line is printed with its 0-based number and the error is raised again
ParserScanError ==
    /\ pc \in Parsers
    /\ i < Len(buf)
    /\ ~parser_skips(buf[i + 1])
    /\ indent_end_re(buf[i + 1]) = -1
    /\ Iterate(TRUE)

\* generic_parser: a line deeper than the open string block, 'continue'
ParserInBlock ==
    /\ pc \in Parsers
    /\ i < Len(buf)
    /\ ~parser_skips(buf[i + 1])
    /\ indent_end_re(buf[i + 1]) # -1
    /\ stringblock
    /\ indent_end_re(buf[i + 1]) \div ilen > strlvl
    /\ Iterate(TRUE)

\* generic_parser: a checked line; the callback is called, its failure is
\* recorded, its exception escapes, and the line may open a string block
ParserCheck ==
    /\ pc \in Parsers
    /\ i < Len(buf)
    /\ ~parser_skips(buf[i + 1])
    /\ indent_end_re(buf[i + 1]) # -1
    /\ ~(stringblock /\ indent_end_re(buf[i + 1]) \div ilen > strlvl)
    /\ \E ret \in (IF pc = "generic_parser" THEN BOOLEAN ELSE {TRUE}) : Iterate(ret)

\* generic_parser: return clean
ParserReturn ==
    /\ pc \in Parsers
    /\ i = Len(buf)
    /\ ReturnCheck(clean)
    /\ UNCHANGED <<buf, loaded, entry, ydict, errs, exc>>
    /\ UNCHANGED script_vars

\* main, lines 332-365: the second load and the walk, or the report of the
\* load's failure
MainWalk ==
    /\ pc = "walk"
    /\ IF loaded = LoadError
       THEN /\ errs' = Append(errs, Report("could not build the dict", 0, <<>>))
            /\ my_assert_clean' = my_assert(FALSE, my_assert_clean)
            /\ UNCHANGED ydict
       ELSE /\ ydict' = loaded
            /\ errs' = errs \o walk(loaded)
            /\ my_assert_clean' =
                   (IF walk(loaded) # <<>> THEN my_assert(FALSE, my_assert_clean)
                    ELSE my_assert_clean)
    /\ pc' = "return"
    /\ UNCHANGED <<buf, loaded, entry, i, clean, stringblock, strlvl, lvl,
                   fun_lvl, namestack, calls, rets, exc>>
    /\ UNCHANGED script_vars

\* main, lines 367-370
MainReturn ==
    /\ pc = "return"
    /\ rets' = ("main" :> my_assert_clean) @@ rets
    /\ pc' = "done"
    /\ UNCHANGED <<buf, loaded, entry, i, clean, stringblock, strlvl, lvl,
                   fun_lvl, namestack, ydict, my_assert_clean, errs, calls, exc>>
    /\ UNCHANGED script_vars

Next ==
    \/ MainLoad
    \/ TrailingLine
    \/ TrailingReturn
    \/ ParserSkip
    \/ ParserScanError
    \/ ParserInBlock
    \/ ParserCheck
    \/ ParserReturn
    \/ MainWalk
    \/ MainReturn

Spec == Init /\ [][Next]_vars

NextCb ==
    \/ ParserSkip
    \/ ParserScanError
    \/ ParserInBlock
    \/ ParserCheck
    \/ ParserReturn

SpecCb == InitCb /\ [][NextCb]_vars

NextOrder ==
    \/ ParserSkip
    \/ ParserScanError
    \/ ParserInBlock
    \/ ParserCheck
    \/ ParserReturn

SpecOrder == InitOrder /\ [][NextOrder]_vars

\* ------------------------------------------------ main on nested documents
\* the str leaves of the documents the audit is run on: with and without
\* whitespace, and the two literals of the whitelist
WalkLeaves ==
    { Str(<<"x">>), Str(<<"x", " ", "y">>),
      Str(<<"e", "l", " ", "c", "a", "p", "i", "t", "a", "n">>),
      Str(<<"m", "o", "u", "n", "t", "a", "i", "n", " ", "l", "i", "o", "n">>) }
WalkKeys == { Str(<<"a">>), Str(<<"x", " ", "y">>) }
WalkLists == { List(s) : s \in SeqsUpTo(WalkLeaves, MaxWalkList) }
\* a mapping inside a mapping or inside a sequence
WalkInner ==
    { Dict(<< <<k, v>> >>) :
        k \in WalkKeys, v \in WalkLeaves \cup { List(<<e>>) : e \in WalkLeaves } }
WalkValues ==
    WalkLeaves \cup WalkLists \cup WalkInner \cup { List(<<d>>) : d \in WalkInner }
\* what yaml.safe_load may give for a buffer that holds a mapping: one or two
\* keys, each with a str, a sequence or a mapping
WalkDocs ==
    { Dict(<< <<k, v>> >>) : k \in WalkKeys, v \in WalkValues }
    \cup { Dict(<< <<Str(<<"a">>), v>>, <<Str(<<"x", " ", "y">>), w>> >>) :
             v \in WalkValues, w \in WalkLeaves \cup WalkInner }
\* the file texts: one that passes the four text checks, one that does not
WalkBuffers ==
    { << <<"a", ":", " ", "[", "x", "]">> >>,
      << <<"b", ":">>, <<"a", ":">> >> }

InitWalk ==
    /\ NoScript
    /\ buf \in WalkBuffers
    /\ entry = "main"
    /\ loaded \in WalkDocs
    /\ pc = entry
    /\ i = 0
    /\ clean = TRUE
    /\ stringblock = FALSE
    /\ strlvl = 0
    /\ lvl = 0
    /\ fun_lvl = 0
    /\ namestack = <<empty_str>>
    /\ ydict = NoneNode
    /\ my_assert_clean = TRUE
    /\ errs = <<>>
    /\ calls = <<>>
    /\ rets = <<>>
    /\ exc = ""

NextWalk ==
    \/ MainLoad
    \/ TrailingLine
    \/ TrailingReturn
    \/ ParserCheck
    \/ ParserReturn
    \/ MainWalk
    \/ MainReturn

SpecWalk == InitWalk /\ [][NextWalk]_vars

\* ============================================ the scripts around check_rosdep
\* the state of check_rosdep while another script runs
NoRosdep ==
    /\ buf = <<>>
    /\ loaded = NoneNode
    /\ clean = TRUE
    /\ stringblock = FALSE
    /\ strlvl = 0
    /\ lvl = 0
    /\ fun_lvl = 0
    /\ namestack = <<empty_str>>
    /\ ydict = NoneNode
    /\ my_assert_clean = TRUE
    /\ calls = <<>>

\* a call of function f of a script is about to run
ScriptCall(f) ==
    /\ NoRosdep
    /\ entry = f
    /\ pc = f
    /\ i = 0
    /\ errs = <<>>
    /\ rets = <<>>
    /\ exc = ""

\* sequences without repetition of at most n elements of S
NoRepeat(S, n) ==
    { s \in SeqsUpTo(S, n) \cup {<<>>} : \A j, k \in 1..Len(s) : j # k => s[j] # s[k] }

\* the dict with keys ks (in this order) and values vs
DictOf(ks, vs) == Dict([n \in 1..Len(ks) |-> <<ks[n], vs[n]>>])

\* the dicts with keys ks and values drawn from V
DictsOver(ks, V) == { DictOf(ks, vs) : vs \in [1..Len(ks) -> V] }

\* ------------------------------------------------- yaml2rosinstall.py
\* the names a registry may use, and what it may say of a repository
NameLetters == <<"a", "b", "c", "d", "e">>
RepoNames == { Str(<<NameLetters[k]>>) : k \in 1..MaxRepos }
RepoValues ==
    { Dict(<< <<key_url, Str(<<"u">>)>> >>),
      Dict(<< <<key_url, Str(<<"u">>)>>, <<key_version, Str(<<"1">>)>> >>),
      Dict(<< <<key_type, svn>>, <<key_url, Str(<<"u">>)>> >>),
      Dict(<< <<key_type, svn>>, <<key_url, Str(<<"u">>)>>,
              <<key_version, Str(<<"1">>)>> >>),
      Dict(<< <<key_type, svn>> >>) }
Registries ==
    UNION { { Dict(<< <<key_repositories, d>> >>) : d \in DictsOver(ns, RepoValues) } :
            ns \in NoRepeat(RepoNames, MaxRepos) }

InitConvert ==
    /\ ScriptCall("convert_yaml_data_to_rosinstall_data")
    /\ tempdirs = {}
    /\ data \in Registries
    /\ args = [data |-> data]
    /\ rosinstall_data = <<>>
    /\ applied = <<>>
    /\ distribution_file = <<>>
    /\ test_repo = NoneNode
    /\ hook_detected = FALSE
    /\ errors = <<>>
    /\ written = NoneNode

\* one iteration of the loop, lines 46-55
ConvertRepo ==
    /\ pc = "convert_yaml_data_to_rosinstall_data"
    /\ i < Len(repository_names(data))
    /\ ~rosinstall_keyerror(data, repository_names(data)[i + 1])
    /\ rosinstall_data' =
           Append(rosinstall_data, rosinstall_entry(data, repository_names(data)[i + 1]))
    /\ i' = i + 1
    /\ UNCHANGED <<entry, pc, errs, rets, exc, args, data, applied,
                   distribution_file, test_repo, hook_detected, errors, written>>
    /\ UNCHANGED rosdep_vars
    /\ UNCHANGED tempdirs

\* values['url'] of a repository without a url, line 50
ConvertKeyError ==
    /\ pc = "convert_yaml_data_to_rosinstall_data"
    /\ i < Len(repository_names(data))
    /\ rosinstall_keyerror(data, repository_names(data)[i + 1])
    /\ pc' = "raised"
    /\ exc' = "KeyError"
    /\ UNCHANGED <<entry, i, errs, rets, args, data, rosinstall_data, applied,
                   distribution_file, test_repo, hook_detected, errors, written>>
    /\ UNCHANGED rosdep_vars
    /\ UNCHANGED tempdirs

\* return rosinstall_data, line 56
ConvertReturn ==
    /\ pc = "convert_yaml_data_to_rosinstall_data"
    /\ i = Len(repository_names(data))
    /\ rets' = (pc :> rosinstall_data) @@ rets
    /\ pc' = "done"
    /\ UNCHANGED <<entry, i, errs, exc, args, data, rosinstall_data, applied,
                   distribution_file, test_repo, hook_detected, errors, written>>
    /\ UNCHANGED rosdep_vars
    /\ UNCHANGED tempdirs

NextConvert ==
    \/ ConvertRepo
    \/ ConvertKeyError
    \/ ConvertReturn

SpecConvert == InitConvert /\ [][NextConvert]_vars

\* ------------------------------------------------------- sort_yaml.py
\* the structures sort_yaml_data is given: lists of str and of lists, dicts
\* of such lists, of a str and of dicts of such lists
SortElements ==
    { Str(<<"a">>), Str(<<"b">>), List(<<Str(<<"b">>), Str(<<"a">>)>>) }
SortLists == { List(s) : s \in SeqsUpTo(SortElements, MaxList) \cup {<<>>} }
SortKeys == { Str(<<"k">>), Str(<<"j">>) }
SortInner == { Dict(<< <<Str(<<"k">>), l>> >>) : l \in SortLists }
SortValues == SortLists \cup SortInner \cup { Str(<<"x">>) }
SortTrees ==
    SortLists \cup
    UNION { DictsOver(ks, SortValues) : ks \in NoRepeat(SortKeys, 2) }

InitSort ==
    /\ ScriptCall("sort_yaml_data")
    /\ tempdirs = {}
    /\ data \in SortTrees
    /\ args = [data |-> data]
    /\ rosinstall_data = <<>>
    /\ applied = <<>>
    /\ distribution_file = <<>>
    /\ test_repo = NoneNode
    /\ hook_detected = FALSE
    /\ errors = <<>>
    /\ written = NoneNode

\* sort_yaml_data(data) returns: data has been sorted in place
SortYamlData ==
    /\ pc = "sort_yaml_data"
    /\ Len(applied) < MaxSorts
    /\ sort_yaml_data(data).exc = ""
    /\ \E r \in {sort_yaml_data(data)} :
           /\ data' = r.data
           /\ applied' = Append(applied, r.data)
    /\ UNCHANGED <<entry, pc, i, errs, rets, exc, args, rosinstall_data,
                   distribution_file, test_repo, hook_detected, errors, written>>
    /\ UNCHANGED rosdep_vars
    /\ UNCHANGED tempdirs

\* sort_yaml_data(data) raises: a list.sort() of elements that do not compare
SortYamlDataRaises ==
    /\ pc = "sort_yaml_data"
    /\ Len(applied) < MaxSorts
    /\ sort_yaml_data(data).exc # ""
    /\ \E r \in {sort_yaml_data(data)} :
           /\ data' = r.data
           /\ exc' = r.exc
    /\ pc' = "raised"
    /\ UNCHANGED <<entry, i, errs, rets, args, rosinstall_data, applied,
                   distribution_file, test_repo, hook_detected, errors, written>>
    /\ UNCHANGED rosdep_vars
    /\ UNCHANGED tempdirs

NextSort ==
    \/ SortYamlData
    \/ SortYamlDataRaises

SpecSort == InitSort /\ [][NextSort]_vars

\* ---------------------------------------------- check_rosdistro_repos.py
\* A repository of the distribution file, with what the environment answers
\* when it is asked for: type; check: what check_<type>_repo does ("ok", the
\* RuntimeError it raises, or "TypeError": under Python 3 check_git_repo
\* compares the bytes of check_output with a str in line.endswith); clone:
\* whether the clone succeeds; packages: whether find_package_paths finds any.
VcsRepo(type, check, clone, packages) ==
    [type |-> type, check |-> check, clone |-> clone, packages |-> packages]
NoRepo == VcsRepo("none", "ok", TRUE, TRUE)
VcsRepos ==
    { VcsRepo("git", "ok", TRUE, TRUE),
      VcsRepo("git", "ok", TRUE, FALSE),
      VcsRepo("git", "ok", FALSE, FALSE),
      VcsRepo("git", "version not found", FALSE, FALSE),
      VcsRepo("git", "TypeError", FALSE, FALSE),
      VcsRepo("hg", "ok", TRUE, TRUE),
      VcsRepo("svn", "not a valid svn repo url", FALSE, FALSE),
      VcsRepo("bzr", "ok", TRUE, TRUE) }

\* an entry of distribution_file.repositories: its doc and source repository
DistRepos ==
    { [doc |-> r, source |-> NoRepo] : r \in VcsRepos \cup {NoRepo} }
    \cup { [doc |-> NoRepo, source |-> r] : r \in VcsRepos }
    \cup { [doc |-> r, source |-> r] : r \in VcsRepos }

\* what get_distribution_file gives: it raises RuntimeError (loads = FALSE)
\* or returns the repositories, here in the order of sorted(keys())
DistributionFiles ==
    { [loads |-> FALSE, repositories |-> <<>>] }
    \cup { [loads |-> TRUE, repositories |-> s] :
             s \in SeqsUpTo(DistRepos, MaxDistRepos) \cup {<<>>} }

InitDistro ==
    /\ ScriptCall("check_rosdistro_repos.main")
    /\ tempdirs = {}
    /\ args \in [repo_type : {"doc", "source"}, check_for_wet_packages : BOOLEAN]
    /\ distribution_file \in DistributionFiles
    /\ data = NoneNode
    /\ rosinstall_data = <<>>
    /\ applied = <<>>
    /\ test_repo = NoneNode
    /\ hook_detected = FALSE
    /\ errors = <<>>
    /\ written = NoneNode

\* the repo of the running iteration, lines 192-196
distro_repo == distribution_file.repositories[i + 1][args.repo_type]

\* the loop is at an item
DistroAt ==
    /\ pc = "check_rosdistro_repos.main"
    /\ distribution_file.loads
    /\ i < Len(distribution_file.repositories)

\* 'continue', with what was printed to stderr (if anything)
DistroContinue(printed) ==
    /\ i' = i + 1
    /\ errs' = errs \o printed
    /\ UNCHANGED <<entry, pc, rets, exc>>
    /\ UNCHANGED script_vars
    /\ UNCHANGED rosdep_vars

\* get_distribution_file raises RuntimeError, lines 183-187
DistroLoadFails ==
    /\ pc = "check_rosdistro_repos.main"
    /\ ~distribution_file.loads
    /\ errs' = Append(errs, Report("Could not load distribution file", 0, <<>>))
    /\ rets' = (pc :> FALSE) @@ rets
    /\ pc' = "done"
    /\ UNCHANGED <<entry, i, exc>>
    /\ UNCHANGED script_vars
    /\ UNCHANGED rosdep_vars

\* 'if not repo: continue', lines 197-198
DistroSkip ==
    /\ DistroAt
    /\ distro_repo = NoRepo
    /\ DistroContinue(<<>>)

\* a type that is not git, hg or svn, lines 206-209
DistroUnknownType ==
    /\ DistroAt
    /\ distro_repo # NoRepo
    /\ distro_repo.type \notin {"git", "hg", "svn"}
    /\ DistroContinue(<<Report("Unknown type", i + 1, <<>>)>>)

\* check_<type>_repo raises RuntimeError, lines 210-213
DistroFetchFails ==
    /\ DistroAt
    /\ distro_repo # NoRepo
    /\ distro_repo.type \in {"git", "hg", "svn"}
    /\ distro_repo.check \notin {"ok", "TypeError"}
    /\ DistroContinue(<<Report("Could not fetch repository", i + 1, <<>>)>>)

\* check_git_repo raises TypeError, which main does not catch
DistroFetchTypeError ==
    /\ DistroAt
    /\ distro_repo # NoRepo
    /\ distro_repo.type = "git"
    /\ distro_repo.check = "TypeError"
    /\ pc' = "raised"
    /\ exc' = "TypeError"
    /\ UNCHANGED <<entry, i, errs, rets>>
    /\ UNCHANGED script_vars
    /\ UNCHANGED rosdep_vars

\* a variant of shutil.rmtree(path) that leaves the directory
shutil_rmtree_keeps(dirs, path) == dirs

\* shutil.rmtree(path): the directories that exist afterwards
shutil_rmtree(dirs, path) == dirs \ {path}

\* path = tempfile.mkdtemp(), lines 215-216: the directory of this iteration
DistroMkdtemp ==
    /\ DistroAt
    /\ distro_repo # NoRepo
    /\ distro_repo.type \in {"git", "hg", "svn"}
    /\ distro_repo.check = "ok"
    /\ args.check_for_wet_packages
    /\ pc' = "clone"
    /\ tempdirs' = tempdirs \cup {i + 1}
    /\ UNCHANGED <<entry, i, errs, rets, exc, args, data, rosinstall_data, applied,
                   distribution_file, test_repo, hook_detected, errors, written>>
    /\ UNCHANGED rosdep_vars

\* the end of the try statement of lines 217-235: 'finally' removes the
\* directory and the loop goes on, with what was printed to stderr
DistroCloneEnd(printed) ==
    /\ pc = "clone"
    /\ tempdirs' = shutil_rmtree(tempdirs, i + 1)
    /\ pc' = entry
    /\ i' = i + 1
    /\ errs' = errs \o printed
    /\ UNCHANGED <<entry, rets, exc, args, data, rosinstall_data, applied,
                   distribution_file, test_repo, hook_detected, errors, written>>
    /\ UNCHANGED rosdep_vars

\* the clone raises RuntimeError, lines 224-227
DistroCloneFails ==
    /\ pc = "clone"
    /\ ~distro_repo.clone
    /\ DistroCloneEnd(<<Report("Could not clone repository", i + 1, <<>>)>>)

\* the clone holds no package, lines 229-233
DistroNoPackages ==
    /\ pc = "clone"
    /\ distro_repo.clone
    /\ ~distro_repo.packages
    /\ DistroCloneEnd(<<Report("does not contain any wet packages", i + 1, <<>>)>>)

\* the repository passes every check that is made: the existence check
\* alone, or the clone and the search for packages too
DistroPass ==
    \/ /\ DistroAt
       /\ distro_repo # NoRepo
       /\ distro_repo.type \in {"git", "hg", "svn"}
       /\ distro_repo.check = "ok"
       /\ ~args.check_for_wet_packages
       /\ DistroContinue(<<>>)
    \/ /\ pc = "clone"
       /\ distro_repo.clone
       /\ distro_repo.packages
       /\ DistroCloneEnd(<<>>)

\* 'return True' after the loop, lines 237-239
DistroReturn ==
    /\ pc = "check_rosdistro_repos.main"
    /\ distribution_file.loads
    /\ i = Len(distribution_file.repositories)
    /\ rets' = (pc :> TRUE) @@ rets
    /\ pc' = "done"
    /\ UNCHANGED <<entry, i, errs, exc>>
    /\ UNCHANGED script_vars
    /\ UNCHANGED rosdep_vars

NextDistro ==
    \/ DistroLoadFails
    \/ DistroSkip
    \/ DistroUnknownType
    \/ DistroFetchFails
    \/ DistroFetchTypeError
    \/ DistroMkdtemp
    \/ DistroCloneFails
    \/ DistroNoPackages
    \/ DistroPass
    \/ DistroReturn

SpecDistro == InitDistro /\ [][NextDistro]_vars

\* ------------------------------------------------- test/hook_permissions.py
\* the url of a hook's config: the callback url, another url, or none
HookUrls == {"callback_url", "other_url", "None"}

\* A repository as GitHub answers for it: found (get_repo does not raise
\* UnknownObjectException), permissions.push and permissions.admin, whether
\* get_hooks() raises UnknownObjectException, and the urls of its hooks.
GithubRepo(found, push, admin, hooks_raise, hooks) ==
    [found |-> found, push |-> push, admin |-> admin, hooks_raise |-> hooks_raise,
     hooks |-> hooks]
GithubRepos ==
    { GithubRepo(TRUE, p, a, FALSE, h) :
        p \in BOOLEAN, a \in BOOLEAN, h \in SeqsUpTo(HookUrls, MaxHooks) \cup {<<>>} }
    \cup { GithubRepo(TRUE, p, a, TRUE, <<>>) : p \in BOOLEAN, a \in BOOLEAN }
    \cup { GithubRepo(FALSE, FALSE, FALSE, FALSE, <<>>) }

InitHooks ==
    /\ \E f \in {"check_hooks_on_repo", "check_repo_for_access"} : ScriptCall(f)
    /\ tempdirs = {}
    /\ args \in [strict : BOOLEAN]
    /\ test_repo \in GithubRepos
    /\ entry = "check_repo_for_access" => test_repo.found
    /\ hook_detected = FALSE
    /\ errors = <<>>
    /\ data = NoneNode
    /\ rosinstall_data = <<>>
    /\ applied = <<>>
    /\ distribution_file = <<>>
    /\ written = NoneNode

\* a variant that does not look at strict
access_result_lenient(push_access, admin_access, detected, strict) ==
    IF (push_access /\ detected) \/ admin_access THEN "True"
    ELSE IF push_access /\ ~detected THEN "True"
    ELSE "None"

\* what check_repo_for_access returns, lines 153-170: "None" when the
\* function ends without a return statement
access_result(push_access, admin_access, detected, strict) ==
    IF (push_access /\ detected) \/ admin_access THEN "True"
    ELSE IF push_access /\ ~detected THEN (IF strict THEN "False" ELSE "True")
    ELSE "None"

\* a step of hook_permissions that changes pc and maybe errs
HooksStep(next, printed) ==
    /\ pc' = next
    /\ errs' = errs \o printed
    /\ UNCHANGED <<entry, exc, args, data, rosinstall_data, applied,
                   distribution_file, test_repo, written>>
    /\ UNCHANGED rosdep_vars
    /\ UNCHANGED tempdirs

\* check_hooks_on_repo: get_repo returns None, lines 215-220
GetRepoFails ==
    /\ pc = "check_hooks_on_repo"
    /\ ~test_repo.found
    /\ rets' = (pc :> FALSE) @@ rets
    /\ HooksStep("done", <<Report("Failed to access repo", 0, <<>>),
                           Report("ERROR: No github repository found", 0, <<>>)>>)
    /\ UNCHANGED <<i, hook_detected, errors>>

\* check_hooks_on_repo: get_repo returns the repository, lines 199-203
GetRepo ==
    /\ pc = "check_hooks_on_repo"
    /\ test_repo.found
    /\ HooksStep("check_repo_for_access", <<>>)
    /\ UNCHANGED <<i, hook_detected, errors, rets>>

\* check_repo_for_access reads the permissions and calls detect_repo_hook,
\* lines 146-149
CheckAccessStart ==
    /\ pc = "check_repo_for_access"
    /\ i' = 0
    /\ HooksStep("detect_repo_hook", <<>>)
    /\ UNCHANGED <<hook_detected, errors, rets>>

\* detect_repo_hook: get_hooks raises UnknownObjectException, lines 150-152
DetectHookRaises ==
    /\ pc = "detect_repo_hook"
    /\ test_repo.hooks_raise
    /\ hook_detected' = FALSE
    /\ errors' = Append(errors, "Unable to check repo for hooks")
    /\ HooksStep("access", <<>>)
    /\ UNCHANGED <<i, rets>>

\* detect_repo_hook: a hook with another url, lines 55-56
DetectHookNext ==
    /\ pc = "detect_repo_hook"
    /\ ~test_repo.hooks_raise
    /\ i < Len(test_repo.hooks)
    /\ test_repo.hooks[i + 1] # "callback_url"
    /\ i' = i + 1
    /\ HooksStep(pc, <<>>)
    /\ UNCHANGED <<hook_detected, errors, rets>>

\* detect_repo_hook: a hook with the callback url, 'return True', line 57
DetectHookFound ==
    /\ pc = "detect_repo_hook"
    /\ ~test_repo.hooks_raise
    /\ i < Len(test_repo.hooks)
    /\ test_repo.hooks[i + 1] = "callback_url"
    /\ hook_detected' = TRUE
    /\ HooksStep("access", <<>>)
    /\ UNCHANGED <<i, errors, rets>>

\* detect_repo_hook: no hook is left, 'return False', line 58
DetectHookNone ==
    /\ pc = "detect_repo_hook"
    /\ ~test_repo.hooks_raise
    /\ i = Len(test_repo.hooks)
    /\ hook_detected' = FALSE
    /\ HooksStep("access", <<>>)
    /\ UNCHANGED <<i, errors, rets>>

\* check_repo_for_access decides and returns, lines 153-170
CheckAccessReturn ==
    /\ pc = "access"
    /\ rets' = ("check_repo_for_access" :>
                    access_result(test_repo.push, test_repo.admin, hook_detected,
                                  args.strict)) @@ rets
    /\ errors' =
           (IF ~test_repo.admin /\ test_repo.push /\ ~hook_detected /\ ~args.strict
            THEN Append(errors, "Warning: Push access detected") ELSE errors)
    /\ HooksStep(IF entry = "check_repo_for_access" THEN "done" ELSE "hooks_ok",
                 IF ~test_repo.admin /\ test_repo.push /\ ~hook_detected
                 THEN <<Report("Warning: Push access detected", 0, <<>>)>> ELSE <<>>)
    /\ UNCHANGED <<i, hook_detected>>

\* check_hooks_on_repo tests hooks_ok and returns, lines 204-214
CheckHooksReturn ==
    /\ pc = "hooks_ok"
    /\ rets' = ("check_hooks_on_repo" :> (rets["check_repo_for_access"] = "True"))
                   @@ rets
    /\ HooksStep("done",
                 IF rets["check_repo_for_access"] = "True"
                 THEN <<Report("Passed ghprb_detector check", 0, <<>>)>>
                 ELSE <<Report("ERROR: Not enough permissions", 0, <<>>)>>)
    /\ UNCHANGED <<i, hook_detected, errors>>

NextHooks ==
    \/ GetRepoFails
    \/ GetRepo
    \/ CheckAccessStart
    \/ DetectHookRaises
    \/ DetectHookNext
    \/ DetectHookFound
    \/ DetectHookNone
    \/ CheckAccessReturn
    \/ CheckHooksReturn

SpecHooks == InitHooks /\ [][NextHooks]_vars

\* ---------------------------------------------------- add_devel_repo.py
gbp == Str(<<"g", "b", "p">>)
source == Str(<<"s", "o", "u", "r", "c", "e">>)
devel == Str(<<"d", "e", "v", "e", "l">>)

\* the registry files: their type and their repositories
DevelTypes == { gbp, source, devel, Str(<<"d", "o", "c">>) }
DevelValues ==
    { Dict(<< <<key_type, git>>, <<key_url, Str(<<"u">>)>>,
              <<key_version, Str(<<"1">>)>> >>) }
DevelFiles ==
    UNION { { Dict(<< <<key_type, t>>, <<key_repositories, d>> >>) :
                t \in DevelTypes, d \in DictsOver(ns, DevelValues) } :
            ns \in NoRepeat({ Str(<<"b">>), Str(<<"c">>) }, 2) }

\* the arguments: name, vcs_type, url, version (None when it is left out);
\* importable says whether 'from rosdistro.verify import ...' succeeds, and
\* file is what yaml_file holds when the call is made
DevelArgs(file) ==
    [name : { Str(<<"a">>), Str(<<"b">>) }, vcs_type : { git, svn },
     url : { Str(<<"v">>) }, version : { NoneNode, Str(<<"2">>) },
     importable : BOOLEAN, file : {file}]

InitDevel ==
    /\ \E f \in {"add_devel_repository", "add_devel_repository_fuerte"} : ScriptCall(f)
    /\ tempdirs = {}
    /\ data \in DevelFiles
    /\ args \in DevelArgs(data)
    /\ written = NoneNode
    /\ rosinstall_data = <<>>
    /\ applied = <<>>
    /\ distribution_file = <<>>
    /\ test_repo = NoneNode
    /\ hook_detected = FALSE
    /\ errors = <<>>

\* data['repositories'][name] = values
add_repository(d, name, values) ==
    dict_set(d, key_repositories, dict_set(dict_get(d, key_repositories), name, values))

\* a variant that has opened yaml_file for writing before it raises: the
\* file is left empty
DevelRaiseAfterOpen(e) ==
    /\ pc' = "raised"
    /\ exc' = e
    /\ written' = EmptyDict
    /\ UNCHANGED <<entry, i, errs, rets, args, data, rosinstall_data, applied,
                   distribution_file, test_repo, hook_detected, errors>>
    /\ UNCHANGED rosdep_vars
    /\ UNCHANGED tempdirs

\* the function raises e
DevelRaise(e) ==
    /\ pc' = "raised"
    /\ exc' = e
    /\ UNCHANGED <<entry, i, errs, rets, args, data, rosinstall_data, applied,
                   distribution_file, test_repo, hook_detected, errors, written>>
    /\ UNCHANGED rosdep_vars
    /\ UNCHANGED tempdirs

\* the function writes d to yaml_file and returns
DevelWrite(d) ==
    /\ data' = d
    /\ written' = d
    /\ rets' = (pc :> "None") @@ rets
    /\ pc' = "done"
    /\ UNCHANGED <<entry, i, errs, exc, args, rosinstall_data, applied,
                   distribution_file, test_repo, hook_detected, errors>>
    /\ UNCHANGED rosdep_vars
    /\ UNCHANGED tempdirs

\* add_devel_repository: a file of type gbp goes to
\* add_devel_repository_fuerte, lines 32-34
AddDevelGbp ==
    /\ pc = "add_devel_repository"
    /\ dict_get(data, key_type) = gbp
    /\ pc' = "add_devel_repository_fuerte"
    /\ UNCHANGED <<entry, i, errs, rets, exc, args, data, rosinstall_data, applied,
                   distribution_file, test_repo, hook_detected, errors, written>>
    /\ UNCHANGED rosdep_vars
    /\ UNCHANGED tempdirs

\* lines 36-37
AddDevelWrongType ==
    /\ pc = "add_devel_repository"
    /\ dict_get(data, key_type) \notin {gbp, source}
    /\ DevelRaise("RuntimeError")

\* lines 39-40
AddDevelExists ==
    /\ pc = "add_devel_repository"
    /\ dict_get(data, key_type) = source
    /\ dict_has(dict_get(data, key_repositories), args.name)
    /\ DevelRaise("RuntimeError")

\* lines 47-50: rosdistro.verify cannot be imported
AddDevelImportError ==
    /\ pc = "add_devel_repository"
    /\ dict_get(data, key_type) = source
    /\ ~dict_has(dict_get(data, key_repositories), args.name)
    /\ ~args.importable
    /\ DevelRaise("ImportError")

\* lines 42-54: the repository is added and the file written
AddDevelWrite ==
    /\ pc = "add_devel_repository"
    /\ dict_get(data, key_type) = source
    /\ ~dict_has(dict_get(data, key_repositories), args.name)
    /\ args.importable
    /\ DevelWrite(add_repository(data, args.name,
                                 Dict(<< <<key_type, args.vcs_type>>,
                                         <<key_url, args.url>>,
                                         <<key_version, args.version>> >>)))

\* add_devel_repository_fuerte, lines 78-79
FuerteNotDevel ==
    /\ pc = "add_devel_repository_fuerte"
    /\ dict_get(data, key_type) # devel
    /\ DevelRaise("RuntimeError")

\* lines 80-81
FuerteExists ==
    /\ pc = "add_devel_repository_fuerte"
    /\ dict_get(data, key_type) = devel
    /\ dict_has(dict_get(data, key_repositories), args.name)
    /\ DevelRaise("RuntimeError")

\* lines 86-90: a version is required except for svn, and refused for svn
FuerteVersion ==
    /\ pc = "add_devel_repository_fuerte"
    /\ dict_get(data, key_type) = devel
    /\ ~dict_has(dict_get(data, key_repositories), args.name)
    /\ (args.version = NoneNode) = (args.vcs_type # svn)
    /\ DevelRaise("RuntimeError")

\* lines 91-95: the repository is added, data sorted and the file written
FuerteWrite ==
    /\ pc = "add_devel_repository_fuerte"
    /\ dict_get(data, key_type) = devel
    /\ ~dict_has(dict_get(data, key_repositories), args.name)
    /\ (args.version = NoneNode) # (args.vcs_type # svn)
    /\ DevelWrite(sort_yaml_data(
                      add_repository(data, args.name,
                                     Dict(<< <<key_type, args.vcs_type>>,
                                             <<key_url, args.url>>,
                                             <<key_version, args.version>> >>))).data)

NextDevel ==
    \/ AddDevelGbp
    \/ AddDevelWrongType
    \/ AddDevelExists
    \/ AddDevelImportError
    \/ AddDevelWrite
    \/ FuerteNotDevel
    \/ FuerteExists
    \/ FuerteVersion
    \/ FuerteWrite

SpecDevel == InitDevel /\ [][NextDevel]_vars

\* ------------------------------------------------- add_release_repo.py
\* the registry files of add_release_repo.py: their type and their
\* repositories, each with a url and a version
ReleaseValues ==
    { Dict(<< <<key_url, Str(<<"u">>)>>, <<key_version, Str(<<"1">>)>> >>) }
ReleaseFiles ==
    UNION { { Dict(<< <<key_type, t>>, <<key_repositories, d>> >>) :
                t \in {gbp, source}, d \in DictsOver(ns, ReleaseValues) } :
            ns \in NoRepeat({ Str(<<"b">>), Str(<<"c">>) }, 2) }

\* the arguments: name, url, version; file is what yaml_file holds when the
\* call is made
ReleaseArgs(file) ==
    [name : { Str(<<"a">>), Str(<<"b">>) }, url : { Str(<<"u">>), Str(<<"v">>) },
     version : { Str(<<"1">>), Str(<<"2">>) }, file : {file}]

\* a variant that takes every name for a new one
has_repository_never(d, name) == FALSE

\* name in data['repositories'], line 53
has_repository(d, name) == dict_has(dict_get(d, key_repositories), name)

\* the first call: data = yaml.load(open(yaml_file, 'r')), line 24
InitRelease ==
    /\ ScriptCall("add_release_repository")
    /\ tempdirs = {}
    /\ written \in ReleaseFiles
    /\ data = written
    /\ args \in ReleaseArgs(written)
    /\ applied = <<>>
    /\ rosinstall_data = <<>>
    /\ distribution_file = <<>>
    /\ test_repo = NoneNode
    /\ hook_detected = FALSE
    /\ errors = <<>>

\* the script is run again on the file as it is now, line 24
ReleaseCall ==
    /\ pc \in {"done", "raised"}
    /\ entry = "add_release_repository"
    /\ i < MaxCalls - 1
    /\ i' = i + 1
    /\ args' \in ReleaseArgs(written)
    /\ data' = written
    /\ pc' = "add_release_repository"
    /\ exc' = ""
    /\ UNCHANGED <<entry, errs, rets, rosinstall_data, applied, distribution_file,
                   test_repo, hook_detected, errors, written>>
    /\ UNCHANGED rosdep_vars
    /\ UNCHANGED tempdirs

\* the function raises e
ReleaseRaise(e) ==
    /\ pc' = "raised"
    /\ exc' = e
    /\ UNCHANGED <<entry, i, errs, rets, args, data, rosinstall_data, applied,
                   distribution_file, test_repo, hook_detected, errors, written>>
    /\ UNCHANGED rosdep_vars
    /\ UNCHANGED tempdirs

\* add_release_repository: a file of type gbp goes to
\* add_release_repository_fuerte, lines 25-26
ReleaseGbp ==
    /\ pc = "add_release_repository"
    /\ dict_get(data, key_type) = gbp
    /\ pc' = "add_release_repository_fuerte"
    /\ UNCHANGED <<entry, i, errs, rets, exc, args, data, rosinstall_data, applied,
                   distribution_file, test_repo, hook_detected, errors, written>>
    /\ UNCHANGED rosdep_vars
    /\ UNCHANGED tempdirs

\* line 29
ReleaseWrongType ==
    /\ pc = "add_release_repository"
    /\ dict_get(data, key_type) # gbp
    /\ ReleaseRaise("RuntimeError")

\* add_release_repository_fuerte, lines 53-54
ReleaseExists ==
    /\ pc = "add_release_repository_fuerte"
    /\ has_repository(data, args.name)
    /\ ReleaseRaise("RuntimeError")

\* lines 55-61: the repository is added, data sorted and the file written
ReleaseWrite ==
    /\ pc = "add_release_repository_fuerte"
    /\ ~has_repository(data, args.name)
    /\ \E r \in {sort_yaml_data(
                    add_repository(data, args.name,
                                   Dict(<< <<key_url, args.url>>,
                                           <<key_version, args.version>> >>)))} :
          /\ r.exc = ""
          /\ data' = r.data
          /\ written' = r.data
    /\ applied' = Append(applied, args)
    /\ rets' = ("add_release_repository" :> "None") @@ rets
    /\ pc' = "done"
    /\ UNCHANGED <<entry, i, errs, exc, args, rosinstall_data, distribution_file,
                   test_repo, hook_detected, errors>>
    /\ UNCHANGED rosdep_vars
    /\ UNCHANGED tempdirs

NextRelease ==
    \/ ReleaseCall
    \/ ReleaseGbp
    \/ ReleaseWrongType
    \/ ReleaseExists
    \/ ReleaseWrite

SpecRelease == InitRelease /\ [][NextRelease]_vars

\* ------------------------------- add_devel_repo.py and add_release_repo.py
\* a call of one of the functions that add a repository to a registry file
InitRegistry == InitDevel \/ InitRelease

NextRegistry ==
    \/ NextDevel
    \/ NextRelease

SpecRegistry == InitRegistry /\ [][NextRegistry]_vars

\* =================================================================== claims
\* The conventions, stated on the text alone.

\* the number of spaces a line starts with
RECURSIVE Col(_)
Col(l) == IF Len(l) > 0 /\ l[1] = " " THEN 1 + Col(Tail(l)) ELSE 0

\* a blank line: empty, or spaces only
Blank(l) == Col(l) = Len(l)

\* a structural line: not blank, and not a comment
Structural(l) == ~Blank(l) /\ l[Col(l) + 1] # "#"

Level(l) == Col(l) \div 2

EndsWithSpace(l) == Len(l) > 0 /\ l[Len(l)] = " "

\* the line opens a string block: it ends with '|' or '?', or starts with '?'
Opens(l) == l[Len(l)] \in {"|", "?"} \/ l[Col(l) + 1] = "?"

\* line n (1-based) of b is a structural line outside every string block:
\* no checked opener before it has only deeper structural lines up to it
RECURSIVE Checked(_, _)
Checked(b, n) ==
    /\ Structural(b[n])
    /\ ~\E m \in 1..(n - 1) :
          /\ Checked(b, m)
          /\ Opens(b[m])
          /\ \A k \in (m + 1)..n : Structural(b[k]) => Level(b[k]) > Level(b[m])

CheckedLines(b) == { n \in 1..Len(b) : Checked(b, n) }

\* the 1-based line numbers reported with message msg, in order
Reported(msg) ==
    LET r == SelectSeq(errs, LAMBDA e : e.msg = msg)
    IN  [k \in 1..Len(r) |-> r[k].line]

ReportedSet(msg) == { Reported(msg)[k] : k \in 1..Len(Reported(msg)) }

Ended == pc \in {"done", "raised"}
Returned(f) == f \in DOMAIN rets

\* whether the callback-driven check f returns True on the text b
ReturnsTrue(f, b) == generic_parser(f, b).exc = "" /\ generic_parser(f, b).clean

\* each of the four text checks returns True on the text b
AllChecksTrue(b) ==
    /\ no_trailing_spaces(b)
    /\ ReturnsTrue("correct_indent", b)
    /\ ReturnsTrue("check_brackets", b)
    /\ ReturnsTrue("check_order", b)

\* ---------------------------------------------------------------------- C1
\* C1 as stated: main returns True if and only if the document parses, each
\* of the four text checks returns True on the file text and the audit finds
\* no violation; in every other case main returns False.
C1_AsStated ==
    (entry = "main" /\ Ended) =>
        /\ pc = "done"
        /\ rets["main"] = (/\ loaded # LoadError
                             /\ AllChecksTrue(buf)
                             /\ walk(loaded) = <<>>)

\* C1 amended: main returns True if and only if the document parses, the
\* audit finds no violation, and either the document is the empty dict (the
\* four text checks are then skipped) or each of the four text checks returns
\* True on the file text; in every other case main returns False or an
\* exception of a text check escapes it.
C1_MainResult ==
    (entry = "main" /\ Ended) =>
        LET ok == /\ loaded # LoadError
                  /\ loaded = EmptyDict \/ AllChecksTrue(buf)
                  /\ walk(loaded) = <<>>
        IN  IF pc = "done" THEN rets["main"] = ok
            ELSE ~ok /\ exc # "" /\ ~Returned("main")

\* main has returned True for an empty dict whose text has a trailing space
C1_Witness ==
    /\ entry = "main"
    /\ pc = "done"
    /\ rets["main"] = TRUE
    /\ loaded = EmptyDict
    /\ ~no_trailing_spaces(buf)

\* ---------------------------------------------------------------------- C4
\* the 1-based numbers of the lines of b that end with a space
LinesEndingWithSpace(b) == { n \in 1..Len(b) : EndsWithSpace(b[n]) }

\* C4: once no_trailing_spaces has returned, it has returned False if and
\* only if some line of the buffer ends with a space, and it has reported the
\* 1-based number of every line that ends with a space, once each and no
\* other line; a call of no_trailing_spaces never raises.
C4_NoTrailingSpaces ==
    /\ Returned("no_trailing_spaces") =>
          /\ rets["no_trailing_spaces"] = (LinesEndingWithSpace(buf) = {})
          /\ ReportedSet("trailing space") = LinesEndingWithSpace(buf)
          /\ Len(Reported("trailing space")) = Cardinality(LinesEndingWithSpace(buf))
    /\ entry = "no_trailing_spaces" => pc # "raised"

\* no_trailing_spaces has returned False on a two-line buffer whose second
\* line alone ends with a space, and has reported line 2
C4_Witness ==
    /\ entry = "no_trailing_spaces"
    /\ pc = "done"
    /\ rets["no_trailing_spaces"] = FALSE
    /\ Len(buf) = 2
    /\ ~EndsWithSpace(buf[1])
    /\ EndsWithSpace(buf[2])
    /\ Reported("trailing space") = <<2>>

\* ---------------------------------------------------------------------- C2
\* a line with a colon that does not start with '?'
KeyLine(l) == Structural(l) /\ (\E k \in 1..Len(l) : l[k] = ":") /\ l[Col(l) + 1] # "?"

\* every line of b is empty, a comment, a key line or a '?' line
ExpectedShapes(b) ==
    \A n \in 1..Len(b) :
        \/ b[n] = <<>>
        \/ (~Blank(b[n]) /\ ~Structural(b[n]))
        \/ KeyLine(b[n])
        \/ (Structural(b[n]) /\ b[n][Col(b[n]) + 1] = "?")

\* C2, on the buffers whose lines all have an expected shape and whose
\* document is not the empty dict: whatever violations the buffer holds
\* (a skipped indentation level among them), no exception escapes main: the
\* four checks all return and main ends by returning a boolean.
C2_NoExceptionEscapes ==
    (entry = "main" /\ Ended /\ loaded # EmptyDict /\ ExpectedShapes(buf)) =>
        /\ pc = "done"
        /\ \A f \in Checks : Returned(f)
        /\ Returned("main")

\* ---------------------------------------------------------------------- C3
\* C3: generic_parser, called with any buffer and any callback, ends by
\* returning; it has called the callback exactly once, in line order, on
\* every structural line outside a string block and on no other line, also
\* after a call returned failure; and it returns True if and only if every
\* call returned a true value.
C3_EveryLineChecked ==
    (entry = "generic_parser" /\ Ended) =>
        /\ pc = "done"
        /\ { calls[k].line + 1 : k \in 1..Len(calls) } = CheckedLines(buf)
        /\ \A k \in 1..(Len(calls) - 1) : calls[k].line < calls[k + 1].line
        /\ rets["generic_parser"] = (\A k \in 1..Len(calls) : calls[k].ret)

\* ---------------------------------------------------------------------- C5
\* the level of the structural line before line n of b, 0 when there is none
PrevLevel(b, n) ==
    IF \E m \in 1..(n - 1) : Structural(b[m])
    THEN Level(b[CHOOSE m \in 1..(n - 1) :
                    Structural(b[m]) /\ \A k \in (m + 1)..(n - 1) : ~Structural(b[k])])
    ELSE 0

\* every structural line starts at an even column, at most one level deeper
\* than the structural line before it
WellIndented(b) ==
    \A n \in 1..Len(b) :
        Structural(b[n]) =>
            /\ Col(b[n]) % 2 = 0
            /\ Level(b[n]) <= PrevLevel(b, n) + 1

\* C5: on a buffer whose structural lines each start at a column that is a
\* multiple of 2 and at a level at most one greater than that of the
\* structural line before, correct_indent returns True and reports nothing.
C5_WellIndentedPasses ==
    (entry = "correct_indent" /\ Ended /\ WellIndented(buf)) =>
        /\ pc = "done"
        /\ rets["correct_indent"] = TRUE
        /\ errs = <<>>

\* ---------------------------------------------------------------------- C6
\* C6: on a buffer with a structural line outside every string block that
\* starts at a column that is not a multiple of 2, correct_indent returns
\* False and has reported the 1-based number of that line.
C6_OddColumnFails ==
    (entry = "correct_indent" /\ Ended) =>
        \A n \in CheckedLines(buf) :
            Col(buf[n]) % 2 # 0 =>
                /\ pc = "done"
                /\ rets["correct_indent"] = FALSE
                /\ n \in ReportedSet("invalid indentation level")

\* ---------------------------------------------------------------------- C7
\* the key of a key line: the text before its first colon, without the
\* spaces around it
KeyOf(l) == rstrip(SubSeq(l, Col(l) + 1, first_colon(l) - 1))

\* lines m < n of b are consecutive sibling key lines: checked key lines at
\* one level with no shallower line and no key line of that level between
Siblings(b, m, n) ==
    /\ m < n
    /\ Checked(b, m) /\ KeyLine(b[m])
    /\ Checked(b, n) /\ KeyLine(b[n])
    /\ Level(b[m]) = Level(b[n])
    /\ \A k \in (m + 1)..(n - 1) :
          Checked(b, k) =>
              /\ Level(b[k]) >= Level(b[m])
              /\ ~(Level(b[k]) = Level(b[m]) /\ KeyLine(b[k]))

\* C7: for two consecutive sibling key lines, check_order reports the later
\* line and returns False if and only if the later key sorts strictly before
\* the earlier key (equal and ascending keys pass).
C7_SiblingOrder ==
    (entry = "check_order" /\ Ended) =>
        \A m, n \in 1..Len(buf) :
            Siblings(buf, m, n) =>
                ((/\ n \in ReportedSet("list out of alphabetical order")
                  /\ pc = "done"
                  /\ rets["check_order"] = FALSE)
                 <=> str_less(KeyOf(buf[n]), KeyOf(buf[m])))

\* ---------------------------------------------------------------------- C8
\* a line 'key: value' whose value is bare text that starts with a word
\* character
BareValueLine(l) ==
    /\ KeyLine(l)
    /\ first_nonspace_after(l, first_colon(l)) # 0
    /\ IsWord(l[first_nonspace_after(l, first_colon(l))])

\* C8 as stated: on every line 'key: value' with a bare value that
\* check_brackets examines, it fails the line (and reports its 1-based
\* number) when the key is neither uri nor md5sum, and passes the line when
\* the key is uri or md5sum.
C8_AsStated ==
    entry = "check_brackets" =>
        \A k \in 1..Len(calls) :
            LET l == buf[calls[k].line + 1]
            IN  BareValueLine(l) =>
                    /\ calls[k].ret = (KeyOf(l) \in excepts)
                    /\ (calls[k].line + 1 \in ReportedSet("list not in square brackets"))
                           = (KeyOf(l) \notin excepts)

\* the line starts at a whole number of indent atoms and the text from there
\* to its first colon is exactly uri or md5sum
ExemptKey(l) ==
    /\ Col(l) % 2 = 0
    /\ SubSeq(l, Col(l) + 1, first_colon(l) - 1) \in excepts

\* the value of a bare-value line: from its first word character to the end
\* of the line
ValueOf(l) == SubSeq(l, first_nonspace_after(l, first_colon(l)), Len(l))

\* C8 amended: on every line 'key: value' with a bare value that
\* check_brackets examines, it passes the line when the value is exactly
\* 'null' (to the end of the line) or when the line starts at a whole number
\* of indent atoms and its key is exactly uri or md5sum; it fails every other
\* such line and reports its 1-based number (an exempt key at an odd column
\* among them).
C8_BareValue ==
    entry = "check_brackets" =>
        \A k \in 1..Len(calls) :
            LET l == buf[calls[k].line + 1]
                pass == ExemptKey(l) \/ ValueOf(l) = <<"n", "u", "l", "l">>
            IN  BareValueLine(l) =>
                    /\ calls[k].ret = pass
                    /\ (calls[k].line + 1 \in ReportedSet("list not in square brackets"))
                           = ~pass

\* check_brackets has failed a bare value of key b on line 1 and passed a
\* bare value of key uri on line 2
C8_Witness ==
    /\ entry = "check_brackets"
    /\ pc = "done"
    /\ Len(buf) = 2
    /\ Len(calls) = 2
    /\ BareValueLine(buf[1]) /\ KeyOf(buf[1]) = <<"b">> /\ ~calls[1].ret
    /\ BareValueLine(buf[2]) /\ KeyOf(buf[2]) = <<"u", "r", "i">> /\ calls[2].ret
    /\ Reported("list not in square brackets") = <<1>>
    /\ rets["check_brackets"] = FALSE

\* ---------------------------------------------------------------------- C9
\* every line of b that is not blank is a comment, a key line or a '?' line
KnownShapes(b) ==
    \A n \in 1..Len(b) :
        Structural(b[n]) => (KeyLine(b[n]) \/ b[n][Col(b[n]) + 1] = "?")

\* every bare value outside a string block belongs to uri or md5sum or is null
BracketsUsed(b) ==
    \A n \in CheckedLines(b) :
        BareValueLine(b[n]) =>
            (KeyOf(b[n]) \in excepts \/ rstrip(ValueOf(b[n])) = <<"n", "u", "l", "l">>)

\* no key sorts before the sibling key line before it
KeysOrdered(b) ==
    \A m, n \in 1..Len(b) :
        Siblings(b, m, n) => ~str_less(KeyOf(b[n]), KeyOf(b[m]))

\* C9: for every file that keeps every convention (it parses, the audit
\* finds nothing, its lines are well indented, bracketed and ordered) except
\* that exactly one of its lines ends with a space, main returns False and
\* exactly one violation line is reported in all.
C9_OneTrailingSpace ==
    (/\ entry = "main"
     /\ Ended
     /\ Cardinality(LinesEndingWithSpace(buf)) = 1
     /\ loaded # LoadError
     /\ walk(loaded) = <<>>
     /\ KnownShapes(buf)
     /\ WellIndented(buf)
     /\ BracketsUsed(buf)
     /\ KeysOrdered(buf)) =>
        /\ pc = "done"
        /\ rets["main"] = FALSE
        /\ Len(errs) = 1

\* --------------------------------------------------------------------- C10
\* C10: when the document cannot be parsed, main runs the four text checks
\* to their return, skips the whitespace audit, reports the parse failure
\* exactly once and returns False.
C10_ParseFailure ==
    (entry = "main" /\ Ended /\ loaded = LoadError) =>
        /\ pc = "done"
        /\ \A f \in Checks : Returned(f)
        /\ Len(Reported("could not build the dict")) = 1
        /\ Len(Reported("must not contain whitespaces")) = 0
        /\ rets["main"] = FALSE

\* --------------------------------------------------------------------- C11
\* the repositories of a registry, as <<name, values>> pairs
RepositoriesOf(d) == dict_get(d, key_repositories).items

\* every repository of the registry has a url
EveryRepoHasUrl(d) ==
    \A n \in 1..Len(RepositoriesOf(d)) : dict_has(RepositoriesOf(d)[n][2], key_url)

\* e is the install-list entry of the repository name with these values
EntryOf(e, name, values) ==
    /\ e.t = "dict"
    /\ Len(e.items) = 1
    /\ e.items[1][1] =
           (IF dict_has(values, key_type) THEN dict_get(values, key_type) ELSE git)
    /\ e.items[1][2].t = "dict"
    /\ { k : k \in { it[1] : it \in { e.items[1][2].items[n] :
                                        n \in 1..Len(e.items[1][2].items) } } }
           \subseteq {key_local_name, key_uri, key_version}
    /\ dict_has(e.items[1][2], key_local_name)
    /\ dict_get(e.items[1][2], key_local_name) = name
    /\ dict_has(e.items[1][2], key_uri)
    /\ dict_get(e.items[1][2], key_uri) = dict_get(values, key_url)
    /\ dict_has(e.items[1][2], key_version) = dict_has(values, key_version)
    /\ dict_has(values, key_version) =>
           dict_get(e.items[1][2], key_version) = dict_get(values, key_version)

\* the local-name of an entry of the install list
LocalName(e) == dict_get(e.items[1][2], key_local_name)

\* C11: for every registry whose repositories all have a url,
\* convert_yaml_data_to_rosinstall_data returns a list with exactly one entry
\* per repository, in ascending order of name; each entry is keyed by the
\* repository's type ('git' when it has none), holds local-name = name and
\* uri = url, and holds version exactly when the repository has one.
C11_Conversion ==
    (/\ entry = "convert_yaml_data_to_rosinstall_data"
     /\ pc \in {"done", "raised"}
     /\ EveryRepoHasUrl(args.data)) =>
        /\ pc = "done"
        /\ Len(rets[entry]) = Len(RepositoriesOf(args.data))
        /\ \A k \in 1..(Len(rets[entry]) - 1) :
               str_less(LocalName(rets[entry][k]).v, LocalName(rets[entry][k + 1]).v)
        /\ \A n \in 1..Len(RepositoriesOf(args.data)) :
               \E k \in 1..Len(rets[entry]) :
                   EntryOf(rets[entry][k], RepositoriesOf(args.data)[n][1],
                           RepositoriesOf(args.data)[n][2])

\* a registry of three repositories, listed c, a, b, one of them with a
\* version and one with a type, has been converted
C11_Witness ==
    /\ entry = "convert_yaml_data_to_rosinstall_data"
    /\ pc = "done"
    /\ Len(RepositoriesOf(args.data)) = 3
    /\ dict_keys(dict_get(args.data, key_repositories))
           = <<Str(<<"c">>), Str(<<"a">>), Str(<<"b">>)>>
    /\ EveryRepoHasUrl(args.data)
    /\ \E n \in 1..3 : dict_has(RepositoriesOf(args.data)[n][2], key_version)
    /\ \E n \in 1..3 : ~dict_has(RepositoriesOf(args.data)[n][2], key_version)
    /\ \E n \in 1..3 : dict_has(RepositoriesOf(args.data)[n][2], key_type)
    /\ \E n \in 1..3 : ~dict_has(RepositoriesOf(args.data)[n][2], key_type)
    /\ Len(rets[entry]) = 3

\* --------------------------------------------------------------------- C12
\* every list of the structure holds str elements only
RECURSIVE StrLists(_)
StrLists(d) ==
    IF d.t = "list" THEN \A n \in 1..Len(d.items) : d.items[n].t = "str"
    ELSE IF d.t = "dict" THEN \A n \in 1..Len(d.items) : StrLists(d.items[n][2])
    ELSE TRUE

\* s holds the elements of t, each as many times
SameElements(s, t) ==
    /\ Len(s) = Len(t)
    /\ \A x \in { s[n] : n \in 1..Len(s) } \cup { t[n] : n \in 1..Len(t) } :
           Cardinality({ n \in 1..Len(s) : s[n] = x })
               = Cardinality({ n \in 1..Len(t) : t[n] = x })

\* r is d with every list put in ascending order and nothing else changed
RECURSIVE SortedCopy(_, _)
SortedCopy(d, r) ==
    IF d.t = "list"
    THEN /\ r.t = "list"
         /\ SameElements(d.items, r.items)
         /\ \A n \in 1..(Len(r.items) - 1) : ~node_less(r.items[n + 1], r.items[n])
    ELSE IF d.t = "dict"
    THEN /\ r.t = "dict"
         /\ Len(r.items) = Len(d.items)
         /\ \A n \in 1..Len(d.items) :
                /\ r.items[n][1] = d.items[n][1]
                /\ SortedCopy(d.items[n][2], r.items[n][2])
    ELSE r = d

\* C12: on a nested structure of mappings whose lists hold str elements,
\* sort_yaml_data does not raise; one call leaves every list in ascending
\* order with the same elements and every mapping with the same keys, and a
\* second call changes nothing.
C12_SortIdempotent ==
    (entry = "sort_yaml_data" /\ StrLists(args.data)) =>
        /\ pc # "raised"
        /\ Len(applied) >= 1 => SortedCopy(args.data, applied[1])
        /\ Len(applied) >= 2 => applied[2] = applied[1]

\* sort_yaml_data has been called twice on a mapping of a mapping whose list
\* of three str was out of order
C12_Witness ==
    /\ entry = "sort_yaml_data"
    /\ StrLists(args.data)
    /\ Len(applied) = 2
    /\ args.data.t = "dict"
    /\ \E n \in 1..Len(args.data.items) :
           /\ args.data.items[n][2].t = "dict"
           /\ args.data.items[n][2].items[1][2].items
                  = <<Str(<<"b">>), Str(<<"a">>), Str(<<"b">>)>>
           /\ applied[1].items[n][2].items[1][2].items
                  = <<Str(<<"a">>), Str(<<"b">>), Str(<<"b">>)>>

\* --------------------------------------------------------------------- C13
\* the repositories of the requested type that the distribution file has
RequestedRepos ==
    { distribution_file.repositories[n][args.repo_type] :
        n \in 1..Len(distribution_file.repositories) } \ {NoRepo}

\* the repository passed its existence check and, when wet packages are
\* asked for, was cloned and holds a package
RepoPassed(r) ==
    /\ r.type \in {"git", "hg", "svn"}
    /\ r.check = "ok"
    /\ args.check_for_wet_packages => (r.clone /\ r.packages)

\* C13: whenever check_rosdistro_repos main returns, it returns True only if
\* the distribution file loaded and every repository of the requested type
\* passed its checks, and it returns False if the file did not load or some
\* repository failed a check.
C13_MainResult ==
    (entry = "check_rosdistro_repos.main" /\ pc = "done") =>
        /\ rets[entry] =>
               (distribution_file.loads /\ \A r \in RequestedRepos : RepoPassed(r))
        /\ (~distribution_file.loads \/ \E r \in RequestedRepos : ~RepoPassed(r)) =>
               ~rets[entry]

\* --------------------------------------------------------------------- C14
\* the repository has a hook with the callback url that can be read
HookPresent ==
    /\ ~test_repo.hooks_raise
    /\ \E n \in 1..Len(test_repo.hooks) : test_repo.hooks[n] = "callback_url"

\* C14: check_repo_for_access returns a boolean in every case: True exactly
\* when the repository grants admin access, or push access with the hook
\* detected, or push access without a detected hook while strict is False;
\* False when strict is True and push access (without admin access) comes
\* without a detected hook.  check_hooks_on_repo returns True if and only if
\* the repository was found and check_repo_for_access returned True.
C14_AccessResult ==
    /\ (entry \in {"check_hooks_on_repo", "check_repo_for_access"}
        /\ "check_repo_for_access" \in DOMAIN rets) =>
           /\ rets["check_repo_for_access"] \in {"True", "False"}
           /\ (rets["check_repo_for_access"] = "True")
                  = \/ test_repo.admin
                    \/ test_repo.push /\ HookPresent
                    \/ test_repo.push /\ ~HookPresent /\ ~args.strict
           /\ (args.strict /\ test_repo.push /\ ~test_repo.admin /\ ~HookPresent) =>
                  rets["check_repo_for_access"] = "False"
    /\ (entry = "check_hooks_on_repo" /\ pc = "done") =>
           rets["check_hooks_on_repo"]
               = /\ test_repo.found
                 /\ "check_repo_for_access" \in DOMAIN rets
                 /\ rets["check_repo_for_access"] = "True"

\* --------------------------------------------------------------------- C15
\* the file d holds the repository the call was given
HoldsNewRepository(d) ==
    /\ d.t = "dict"
    /\ dict_has(dict_get(d, key_repositories), args.name)
    /\ dict_get(dict_get(dict_get(d, key_repositories), args.name), key_type)
           = args.vcs_type
    /\ dict_get(dict_get(dict_get(d, key_repositories), args.name), key_url)
           = args.url
    /\ dict_get(dict_get(dict_get(d, key_repositories), args.name), key_version)
           = args.version

\* C15: with rosdistro.verify importable, for a registry file of type gbp or
\* source and a name not yet present, add_devel_repository adds the
\* repository (type, url, version) and writes the updated file; it raises
\* only when the type is neither source nor gbp or the name is present.
C15_AddDevel ==
    (/\ entry = "add_devel_repository"
     /\ pc \in {"done", "raised"}
     /\ args.importable) =>
        /\ (/\ dict_get(args.file, key_type) \in {gbp, source}
            /\ ~dict_has(dict_get(args.file, key_repositories), args.name)) =>
               (pc = "done" /\ HoldsNewRepository(written))
        /\ pc = "raised" =>
               \/ dict_get(args.file, key_type) \notin {gbp, source}
               \/ dict_has(dict_get(args.file, key_repositories), args.name)

\* --------------------------------------------------------------------- C16
\* C16: in check_order, after the update of the name stack for a checked line
\* at level L the name stack has exactly L + 1 entries, whatever the buffer.
C16_StackDepth ==
    (entry = "check_order" /\ calls # <<>>) =>
        Len(namestack) = calls[Len(calls)].lvl + 1

\* --------------------------------------------------------------------- C17
\* line n (1-based) of the running buffer has been passed to the callback
Called(n) == \E k \in 1..Len(calls) : calls[k].line + 1 = n

\* a string block is open after the first n lines of b: a checked line among
\* them opens one and every structural line after it, up to line n, is deeper
OpenAfter(b, n) ==
    \E m \in 1..n :
        /\ Checked(b, m)
        /\ Opens(b[m])
        /\ \A k \in (m + 1)..n : Structural(b[k]) => Level(b[k]) > Level(b[m])

\* C17: of the lines generic_parser has gone through, a structural line is
\* passed to the callback unless a checked line before it, at level L, ends
\* with '|' or '?' or starts with '?' and every structural line from there to
\* it is deeper than L; the first line at level L or less after such a line
\* is checked and closes the string block, and no structural line is skipped
\* while no string block is open.
C17_StringBlock ==
    entry = "generic_parser" =>
        /\ \A n \in 1..i : Called(n) = Checked(buf, n)
        /\ stringblock = OpenAfter(buf, i)

\* generic_parser has returned on three lines: an opener at level 0, a deeper
\* line that was skipped, and a line at level 0 that was checked and closed
\* the block
C17_Witness ==
    /\ entry = "generic_parser"
    /\ pc = "done"
    /\ Len(buf) = 3
    /\ Structural(buf[1]) /\ Opens(buf[1]) /\ Level(buf[1]) = 0
    /\ Structural(buf[2]) /\ Level(buf[2]) > 0
    /\ Structural(buf[3]) /\ Level(buf[3]) = 0 /\ ~Opens(buf[3])
    /\ Called(1) /\ ~Called(2) /\ Called(3)
    /\ ~stringblock

\* --------------------------------------------------------------------- C18
\* C18: a step of generic_parser on a blank line (empty, or spaces only) or
\* on a line whose first non-space character is '#' calls no callback, raises
\* no error and leaves the string-block flag, the previous indentation level
\* and the name stack as they were.
C18_BlankLinesSkipped ==
    [][(/\ pc \in Parsers
        /\ i < Len(buf)
        /\ ~Structural(buf[i + 1])) =>
           (/\ calls' = calls
            /\ exc' = ""
            /\ pc' = pc
            /\ i' = i + 1
            /\ stringblock' = stringblock
            /\ strlvl' = strlvl
            /\ fun_lvl' = fun_lvl
            /\ namestack' = namestack)]_vars

\* --------------------------------------------------------------------- C19
\* correct_indent is running or was the function called
InCorrectIndent == pc = "correct_indent" \/ entry = "correct_indent"

\* C19: in correct_indent, after every checked line the recorded previous
\* level is that line's level, whether the line passed or failed; a checked
\* line at the level of the checked line before it, or shallower, is never
\* reported as too much indentation.
C19_PreviousLevel ==
    (InCorrectIndent /\ calls # <<>>) =>
        /\ fun_lvl = calls[Len(calls)].lvl
        /\ fun_lvl = Level(buf[calls[Len(calls)].line + 1])
        /\ \A k \in 2..Len(calls) :
               calls[k].lvl <= calls[k - 1].lvl =>
                   (calls[k].line + 1) \notin ReportedSet("too much indentation")

\* correct_indent has reported line 1, two levels deep, as too much
\* indentation and has passed line 2 at the same level
C19_Witness ==
    /\ entry = "correct_indent"
    /\ pc = "done"
    /\ Len(calls) = 2
    /\ calls[1].lvl = 2 /\ ~calls[1].ret
    /\ calls[2].lvl = 2 /\ calls[2].ret
    /\ Reported("too much indentation") = <<1>>

\* --------------------------------------------------------------------- C20
\* C20: for three consecutive sibling key lines k1, k2, k3 with k2 < k1 and
\* k2 <= k3, check_order returns having reported the k2 line and not the k3
\* line, also when k3 < k1.
C20_NoCascade ==
    (entry = "check_order" /\ Ended) =>
        \A m, n, p \in 1..Len(buf) :
            (/\ Siblings(buf, m, n)
             /\ Siblings(buf, n, p)
             /\ str_less(KeyOf(buf[n]), KeyOf(buf[m]))
             /\ ~str_less(KeyOf(buf[p]), KeyOf(buf[n]))) =>
                /\ pc = "done"
                /\ n \in ReportedSet("list out of alphabetical order")
                /\ p \notin ReportedSet("list out of alphabetical order")

\* --------------------------------------------------------------------- C21
\* a line 'key: value' whose value begins with a character that is neither
\* whitespace nor an opening bracket (the '|' that opens a literal block is
\* not a value: the value is on the lines below it)
UnbracketedValueLine(l) ==
    /\ KeyLine(l)
    /\ first_nonspace_after(l, first_colon(l)) # 0
    /\ l[first_nonspace_after(l, first_colon(l))] \notin {"[", "{", "|"}

\* C21: check_brackets fails a line it examines if and only if the line is
\* 'key: value' with a value that begins with a non-whitespace character
\* other than an opening bracket (a quote as well as a word character), the
\* key is not uri or md5sum and the value is not exactly 'null'.
C21_AnyUnbracketedValue ==
    entry = "check_brackets" =>
        \A k \in 1..Len(calls) :
            LET l == buf[calls[k].line + 1]
            IN  calls[k].ret =
                    ~(/\ UnbracketedValueLine(l)
                      /\ ~ExemptKey(l)
                      /\ ValueOf(l) # null_marker)

\* --------------------------------------------------------------------- C22
\* the call of the callback on line n (1-based) of the running buffer
CallOn(n) == calls[CHOOSE k \in 1..Len(calls) : calls[k].line + 1 = n]

\* the decoded key of line m sorts strictly before the decoded key of line
\* n: numbers numerically, strings by code point
KeyBefore(b, m, n) ==
    LET x == yaml_safe_load_key(KeyOf(b[m]))
        y == yaml_safe_load_key(KeyOf(b[n]))
    IN  IF x.t = "int" /\ y.t = "int" THEN int_value(x.v) < int_value(y.v)
        ELSE str_less(x.v, y.v)

\* C22: in check_order the comparison of a key never raises; the first key
\* at a level (no sibling key line before it) passes whether it decodes to a
\* string or to a number; a later key of the type of its previous sibling
\* fails exactly when it sorts strictly before that sibling in the natural
\* ordering of the decoded scalars.
C22_KeyComparison ==
    entry = "check_order" =>
        \A n \in 1..Len(buf) :
            (Called(n) /\ KeyLine(buf[n])) =>
                /\ CallOn(n).exc # "TypeError"
                /\ (/\ CallOn(n).exc = ""
                    /\ ~\E m \in 1..Len(buf) : Siblings(buf, m, n)) =>
                       CallOn(n).ret
                /\ \A m \in 1..Len(buf) :
                       (/\ Siblings(buf, m, n)
                        /\ CallOn(n).exc = ""
                        /\ yaml_safe_load_key(KeyOf(buf[m])).t
                               = yaml_safe_load_key(KeyOf(buf[n])).t) =>
                           (CallOn(n).ret = ~KeyBefore(buf, n, m))

\* --------------------------------------------------------------------- C23
\* line n of b is the first key line of its level under a new parent: a key
\* line m of the same level lies before it, a checked line p of a shallower
\* level lies between them, and no key line of that level lies between p and n
FirstUnderNewParent(b, m, p, n) ==
    /\ m < p /\ p < n
    /\ Checked(b, m) /\ KeyLine(b[m])
    /\ Checked(b, n) /\ KeyLine(b[n])
    /\ Level(b[m]) = Level(b[n])
    /\ Checked(b, p) /\ Level(b[p]) < Level(b[n])
    /\ \A k \in (p + 1)..(n - 1) :
          Checked(b, k) => ~(KeyLine(b[k]) /\ Level(b[k]) = Level(b[n]))

\* C23: in check_order the first key line of a level under a new parent (a
\* line of a shallower level lies between it and the key lines of that level
\* before it) passes and is not reported, whatever the keys under the
\* earlier parents were.
C23_NewParentPasses ==
    entry = "check_order" =>
        \A m, p, n \in 1..Len(buf) :
            (FirstUnderNewParent(buf, m, p, n) /\ Called(n)) =>
                /\ CallOn(n).ret
                /\ n \notin ReportedSet("list out of alphabetical order")

\* --------------------------------------------------------------------- C24
\* a line whose first non-space character is '?'
MarkerLine(l) == Structural(l) /\ l[Col(l) + 1] = "?"

\* key line m of b is the last key line of the level of line n before n,
\* under the same parent
LastKeyBefore(b, m, n) ==
    /\ m < n
    /\ Checked(b, m) /\ KeyLine(b[m])
    /\ Level(b[m]) = Level(b[n])
    /\ \A k \in (m + 1)..(n - 1) :
          Checked(b, k) =>
              /\ Level(b[k]) >= Level(b[n])
              /\ ~(Level(b[k]) = Level(b[n]) /\ KeyLine(b[k]))

RECURSIVE Occurrences(_, _)
RECURSIVE OccurrencesIn(_, _)
OccurrencesIn(nodes, v) ==
    IF nodes = <<>> THEN 0
    ELSE Occurrences(nodes[1], v) + OccurrencesIn(Tail(nodes), v)
Occurrences(node, v) ==
    CASE node.t = "str" -> IF node.v = v THEN 1 ELSE 0
      [] node.t = "list" -> OccurrencesIn(node.items, v)
      [] node.t = "dict" ->
            OccurrencesIn([k \in 1..Len(node.items) |-> node.items[k][1]], v)
            + OccurrencesIn([k \in 1..Len(node.items) |-> node.items[k][2]], v)
      [] OTHER -> 0

\* the texts of the str leaves and keys of the documents
WalkTexts == { n.v : n \in WalkLeaves \cup WalkKeys }

\* v holds a whitespace character and is not a literal of the whitelist
Offending(v) ==
    /\ \E k \in 1..Len(v) : v[k] \in {" ", "\t", "\r", "\f"}
    /\ v # <<"e", "l", " ", "c", "a", "p", "i", "t", "a", "n">>
    /\ v # <<"m", "o", "u", "n", "t", "a", "i", "n", " ", "l", "i", "o", "n">>

\* the number of reports of the audit that name the str v
AuditReports(v) ==
    Len(SelectSeq(errs, LAMBDA e : e.msg = "must not contain whitespaces" /\ e.text = v))

NoIndentEnd(l) == l # <<>> /\ \A k \in 1..Len(l) : l[k] = " "

\* a structural line that is not a '?' line and holds no colon
NoColonLine(l) ==
    /\ Structural(l)
    /\ l[Col(l) + 1] # "?"
    /\ \A k \in 1..Len(l) : l[k] # ":"

\* line n (1-based) of the running buffer has stopped the scan: the call has
\* raised at that line, no later line was given to a callback and neither the
\* running check nor main has returned
StoppedAt(n) ==
    /\ pc = "raised"
    /\ exc # ""
    /\ i = n - 1
    /\ \A k \in 1..Len(calls) : calls[k].line + 1 <= n
    /\ ~Returned("check_order")
    /\ ~Returned("main")

\* the last printed line
LastReport == errs[Len(errs)]

\* a parser has gone through line n or stopped at it
Reached(n) == n <= i \/ (n = i + 1 /\ pc = "raised")

ReposOf(d) == dict_get(d, key_repositories)

\* the number of entries of the mapping d under the name k
EntriesNamed(d, k) == Cardinality({ n \in 1..Len(d.items) : d.items[n][1] = k })

AddFunctions ==
    {"add_devel_repository", "add_devel_repository_fuerte", "add_release_repository"}

\* the call that is running, or has ended, was given a file or arguments the
\* functions refuse: a type they do not support, a name that is in the file,
\* no version for a repository that is not svn, or a version for svn
Refused ==
    \/ dict_has(ReposOf(args.file), args.name)
    \/ entry = "add_release_repository" /\ dict_get(args.file, key_type) # gbp
    \/ entry = "add_devel_repository"
          /\ dict_get(args.file, key_type) \notin {gbp, source}
    \/ entry = "add_devel_repository_fuerte"
          /\ \/ dict_get(args.file, key_type) # devel
             \/ (args.version = NoneNode) = (args.vcs_type # svn)

\* C28: whenever add_devel_repository, add_devel_repository_fuerte or
\* add_release_repository has raised, the registry file has not been written
\* by that call: it holds what it held when the call was made; and a call
\* that was given an unsupported type, a name that is in the file, no version
\* for a repository that is not svn or a version for svn never writes.
C28_RaiseLeavesFile ==
    (entry \in AddFunctions) =>
        /\ pc = "raised" =>
               IF entry = "add_release_repository"
               THEN written = args.file
               ELSE written = NoneNode
        /\ (Refused /\ pc \in {"done", "raised"}) =>
               /\ pc = "raised"
               /\ exc # ""

\* add_devel_repository_fuerte has raised on a file of type devel for a git
\* repository with a new name and no version; nothing was written
C28_Witness ==
    /\ entry = "add_devel_repository_fuerte"
    /\ pc = "raised"
    /\ exc = "RuntimeError"
    /\ dict_get(args.file, key_type) = devel
    /\ ~dict_has(ReposOf(args.file), args.name)
    /\ args.vcs_type = git
    /\ args.version = NoneNode
    /\ written = NoneNode

\* --------------------------------------------------------------------- C29
\* the number of entries of the list 'errors' that are the text e
ErrorsOf(e) == Cardinality({ k \in 1..Len(errors) : errors[k] = e })

\* C29: once check_repo_for_access has returned: with push access, no admin
\* access and no hook detected it has returned False in strict mode and has
\* appended no warning, and has returned True otherwise and has appended
\* exactly one warning; with admin access, or push access and a detected
\* hook, it has appended no warning; in every case the list holds, besides
\* the warning, exactly one error when the hook detection raised and nothing
\* when it did not.
C29_ErrorsList ==
    ("check_repo_for_access" \in DOMAIN rets) =>
        /\ (test_repo.push /\ ~test_repo.admin /\ ~HookPresent) =>
               IF args.strict
               THEN /\ rets["check_repo_for_access"] = "False"
                    /\ ErrorsOf("Warning: Push access detected") = 0
               ELSE /\ rets["check_repo_for_access"] = "True"
                    /\ ErrorsOf("Warning: Push access detected") = 1
        /\ (test_repo.admin \/ (test_repo.push /\ HookPresent)) =>
               /\ rets["check_repo_for_access"] = "True"
               /\ ErrorsOf("Warning: Push access detected") = 0
        /\ ErrorsOf("Unable to check repo for hooks")
               = (IF test_repo.hooks_raise THEN 1 ELSE 0)
        /\ Len(errors) = ErrorsOf("Warning: Push access detected")
                         + ErrorsOf("Unable to check repo for hooks")

\* check_repo_for_access has returned False in strict mode for a repository
\* with push access and no admin access whose hooks could not be read: the
\* list holds the error of the detection and no warning
C29_Witness ==
    /\ entry = "check_repo_for_access"
    /\ pc = "done"
    /\ args.strict
    /\ test_repo.push /\ ~test_repo.admin /\ test_repo.hooks_raise
    /\ rets["check_repo_for_access"] = "False"
    /\ errors = <<"Unable to check repo for hooks">>

\* --------------------------------------------------------------------- C30
\* C30: in check_rosdistro_repos main with check_for_wet_packages set, a
\* repository is being cloned only when its existence check succeeded, and
\* the one temporary directory that exists then is the directory of that
\* clone; whenever the loop is at the next repository, and when main has
\* returned, no temporary directory exists, whether the clone failed, held
\* no package or succeeded.
C30_TempDirs ==
    (entry = "check_rosdistro_repos.main" /\ args.check_for_wet_packages) =>
        /\ pc = "clone" =>
               /\ distro_repo.type \in {"git", "hg", "svn"}
               /\ distro_repo.check = "ok"
               /\ tempdirs = {i + 1}
        /\ pc # "clone" => tempdirs = {}
        /\ \A n \in 1..Len(distribution_file.repositories) :
               LET r == distribution_file.repositories[n][args.repo_type]
               IN  (/\ n <= i
                    /\ distribution_file.loads
                    /\ r # NoRepo
                    /\ r.type \in {"git", "hg", "svn"}
                    /\ r.check = "ok") =>
                       \/ ~r.clone /\ n \in ReportedSet("Could not clone repository")
                       \/ r.clone /\ ~r.packages
                             /\ n \in ReportedSet("does not contain any wet packages")
                       \/ r.clone /\ r.packages
                             /\ n \notin ReportedSet("Could not clone repository")
                             /\ n \notin ReportedSet("does not contain any wet packages")

\* main has returned after two clones: the first failed, the second held no
\* package, and no temporary directory is left
C30_Witness ==
    /\ entry = "check_rosdistro_repos.main"
    /\ pc = "done"
    /\ args.check_for_wet_packages
    /\ Reported("Could not clone repository") = <<1>>
    /\ Reported("does not contain any wet packages") = <<2>>
    /\ tempdirs = {}

====
